---- MODULE Spec2Model ----
(***************************************************************************)
(* Model of cura_profile_builder.py: the setting validator                 *)
(* (SettingMetadata), the partitioner / serializer and the archive         *)
(* builder (CuraBuilder).                                                  *)
(*                                                                         *)
(* Text is a sequence of one-character strings.  A Python object is a      *)
(* record [t, n, s]: t is the Python type, n the number it holds and s the *)
(* characters of a str.  A float holds n hundredths (2.5 is n = 250), an   *)
(* int holds n itself, a bool holds 0 or 1, a list holds its length (every *)
(* element is the int 0).                                                  *)
(***************************************************************************)
EXTENDS Integers, Sequences, FiniteSets, TLC

\* ------------------------------------------------------------------ text

Upper == <<"A","B","C","D","E","F","G","H","I","J","K","L","M",
           "N","O","P","Q","R","S","T","U","V","W","X","Y","Z">>
Lower == <<"a","b","c","d","e","f","g","h","i","j","k","l","m",
           "n","o","p","q","r","s","t","u","v","w","x","y","z">>
Digits == <<"0","1","2","3","4","5","6","7","8","9">>

UpperSet == {Upper[i] : i \in DOMAIN Upper}
LowerSet == {Lower[i] : i \in DOMAIN Lower}
DigitSet == {Digits[i] : i \in DOMAIN Digits}
LowerOf == [c \in UpperSet |-> Lower[CHOOSE i \in DOMAIN Upper : Upper[i] = c]]
ValueOf == [c \in DigitSet |-> (CHOOSE i \in DOMAIN Digits : Digits[i] = c) - 1]

IsUpper(c) == c \in UpperSet
IsLowerCh(c) == c \in LowerSet
IsDigit(c) == c \in DigitSet
DigitVal(c) == ValueOf[c]

\* str.lower(), one character
LowerChar(c) == IF IsUpper(c) THEN LowerOf[c] ELSE c
\* str.lower()
StrLower(s) == [i \in DOMAIN s |-> LowerChar(s[i])]

UpperOf == [c \in LowerSet |-> Upper[CHOOSE i \in DOMAIN Lower : Lower[i] = c]]
UpperChar(c) == IF IsLowerCh(c) THEN UpperOf[c] ELSE c
\* str.upper()
StrUpper(s) == [i \in DOMAIN s |-> UpperChar(s[i])]
IsAlpha(c) == IsUpper(c) \/ IsLowerCh(c)
\* str.title(): a letter is upper case after a character that is no letter
StrTitle(s) ==
    [i \in DOMAIN s |->
        IF i > 1 /\ IsAlpha(s[i - 1]) THEN LowerChar(s[i]) ELSE UpperChar(s[i])]

Range(s) == { s[i] : i \in DOMAIN s }
\* where old occurs in s, and str.replace(old, new) for a non-empty old
Occurrences(s, old) ==
    { i \in 1..(Len(s) - Len(old) + 1) : SubSeq(s, i, i + Len(old) - 1) = old }
RECURSIVE Replace(_, _, _)
Replace(s, old, new) ==
    IF Occurrences(s, old) = {} THEN s
    ELSE LET p == CHOOSE i \in Occurrences(s, old) : \A j \in Occurrences(s, old) : i <= j
         IN  SubSeq(s, 1, p - 1) \o new \o Replace(SubSeq(s, p + Len(old), Len(s)), old, new)
RECURSIVE Split(_, _)
\* str.split(sep) for a one-character sep
Split(s, sep) ==
    IF Occurrences(s, <<sep>>) = {} THEN <<s>>
    ELSE LET p == CHOOSE i \in Occurrences(s, <<sep>>) : \A j \in Occurrences(s, <<sep>>) : i <= j
         IN  <<SubSeq(s, 1, p - 1)>> \o Split(SubSeq(s, p + 1, Len(s)), sep)
\* str.split(sep, 1)
SplitOnce(s, sep) ==
    IF Occurrences(s, <<sep>>) = {} THEN <<s>>
    ELSE LET p == CHOOSE i \in Occurrences(s, <<sep>>) : \A j \in Occurrences(s, <<sep>>) : i <= j
         IN  <<SubSeq(s, 1, p - 1), SubSeq(s, p + 1, Len(s))>>

IsSpace(c) == c \in {" ", "\n", "\t"}

RECURSIVE LStrip(_)
LStrip(s) == IF s # <<>> /\ IsSpace(Head(s)) THEN LStrip(Tail(s)) ELSE s
RECURSIVE RStrip(_)
RStrip(s) == IF s # <<>> /\ IsSpace(s[Len(s)]) THEN RStrip(SubSeq(s, 1, Len(s) - 1)) ELSE s
\* str.strip()
Strip(s) == RStrip(LStrip(s))

RECURSIVE Join(_, _)
\* sep.join(parts)
Join(sep, parts) ==
    IF parts = <<>> THEN <<>>
    ELSE IF Len(parts) = 1 THEN parts[1]
    ELSE parts[1] \o sep \o Join(sep, Tail(parts))

RECURSIVE DecStr(_)
\* str(n) of a natural number
DecStr(n) == IF n < 10 THEN <<Digits[n + 1]>> ELSE DecStr(n \div 10) \o <<Digits[(n % 10) + 1]>>
\* str(n) of an int
IntStr(n) == IF n < 0 THEN <<"-">> \o DecStr(-n) ELSE DecStr(n)
\* the digits after the point of a float with c hundredths: repr is the shortest
Fraction(c) == IF c % 10 = 0 THEN DecStr(c \div 10) ELSE DecStr(c \div 10) \o DecStr(c % 10)
\* str(x) of a float holding h hundredths
FloatStr(h) ==
    (IF h < 0 THEN <<"-">> ELSE <<>>) \o DecStr((IF h < 0 THEN -h ELSE h) \div 100)
        \o <<".">> \o Fraction((IF h < 0 THEN -h ELSE h) % 100)

RECURSIVE DigitsVal(_, _)
DigitsVal(s, acc) == IF s = <<>> THEN acc ELSE DigitsVal(Tail(s), 10 * acc + DigitVal(Head(s)))
AllDigits(s) == s # <<>> /\ \A i \in DOMAIN s : IsDigit(s[i])

\* ---------------------------------------------------------- Python objects

NoneV == [t |-> "none", n |-> 0, s |-> <<>>]
BoolV(b) == [t |-> "bool", n |-> IF b THEN 1 ELSE 0, s |-> <<>>]
IntV(i) == [t |-> "int", n |-> i, s |-> <<>>]
\* the float of h halves, and the float of c hundredths
FloatV(h) == [t |-> "float", n |-> 50 * h, s |-> <<>>]
DecV(c) == [t |-> "float", n |-> c, s |-> <<>>]
StrV(s) == [t |-> "str", n |-> 0, s |-> s]
ListV(len) == [t |-> "list", n |-> len, s |-> <<>>]
\* float("inf"), which json.loads gives for 1e999: it compares above every number
\* that is used here, so it stands as a float beyond all of them
InfV == [t |-> "float", n |-> 100000000, s |-> <<>>]

IsNumber(v) == v.t \in {"bool", "int", "float"}
\* the number a bool, int or float holds, in hundredths
Hundredths(v) == IF v.t = "float" THEN v.n ELSE 100 * v.n
\* Python's ordering of two numbers
NumLess(a, b) == Hundredths(a) < Hundredths(b)

\* bool(v): Python truthiness
Truthy(v) ==
    CASE v.t = "none" -> FALSE
      [] v.t = "str" -> v.s # <<>>
      [] OTHER -> v.n # 0

\* str(v)
PyStr(v) ==
    CASE v.t = "none" -> <<"N","o","n","e">>
      [] v.t = "bool" -> IF v.n = 1 THEN <<"T","r","u","e">> ELSE <<"F","a","l","s","e">>
      [] v.t = "int" -> IntStr(v.n)
      [] v.t = "float" -> IF v = InfV THEN <<"i","n","f">> ELSE FloatStr(v.n)
      [] v.t = "str" -> v.s
      [] OTHER -> <<"[">> \o Join(<<",", " ">>, [i \in 1..v.n |-> <<"0">>]) \o <<"]">>

\* digits, a point, digits: the hundredths of the number, or -1 when the text is
\* no literal of the grid (more than two digits after the point are not modelled)
MagnitudeAt(ip, fp) ==
    IF ~(ip = <<>> \/ AllDigits(ip)) \/ (ip = <<>> /\ fp = <<>>)
        \/ ~(fp = <<>> \/ AllDigits(fp)) \/ Len(fp) > 2
    THEN -1
    ELSE 100 * DigitsVal(ip, 0) + (IF Len(fp) = 1 THEN 10 ELSE 1) * DigitsVal(fp, 0)

PointsOf(s) == {i \in DOMAIN s : s[i] = "."}

\* the text of a number literal, sign removed: its hundredths, or -1 when it is
\* no literal.  allowPoint: float() takes a decimal point, int() does not.
Magnitude(s, allowPoint) ==
    IF PointsOf(s) = {} THEN (IF AllDigits(s) THEN 100 * DigitsVal(s, 0) ELSE -1)
    ELSE IF ~allowPoint \/ Cardinality(PointsOf(s)) > 1 THEN -1
    ELSE MagnitudeAt(SubSeq(s, 1, (CHOOSE i \in PointsOf(s) : TRUE) - 1),
                     SubSeq(s, (CHOOSE i \in PointsOf(s) : TRUE) + 1, Len(s)))

Signed(neg, m) == IF m < 0 THEN [ok |-> FALSE, h |-> 0] ELSE [ok |-> TRUE, h |-> IF neg THEN -m ELSE m]

\* a stripped text parsed as a number
ParseStripped(b, allowPoint) ==
    IF b # <<>> /\ Head(b) \in {"-", "+"}
    THEN Signed(Head(b) = "-", Magnitude(Tail(b), allowPoint))
    ELSE Signed(FALSE, Magnitude(b, allowPoint))

\* int(str) / float(str): [ok, h] with h the parsed number in hundredths
ParseNumber(s, allowPoint) == ParseStripped(Strip(s), allowPoint)

IntOfParse(p) == [ok |-> p.ok, v |-> IntV(p.h \div 100)]
FloatOfParse(p) == [ok |-> p.ok, v |-> DecV(p.h)]

\* int(v): [ok, v]; not ok is the ValueError or TypeError int() raises
PyInt(v) ==
    CASE v.t \in {"bool", "int"} -> [ok |-> TRUE, v |-> IntV(v.n)]
      [] v = InfV -> [ok |-> FALSE, v |-> v]      \* OverflowError
      [] v.t = "float" ->
            \* truncation toward zero
            [ok |-> TRUE, v |-> IntV(IF v.n < 0 THEN -((-v.n) \div 100) ELSE v.n \div 100)]
      [] v.t = "str" -> IntOfParse(ParseNumber(v.s, FALSE))
      [] OTHER -> [ok |-> FALSE, v |-> v]

\* float(v)
PyFloat(v) ==
    CASE v.t \in {"bool", "int"} -> [ok |-> TRUE, v |-> DecV(100 * v.n)]
      [] v.t = "float" -> [ok |-> TRUE, v |-> v]
      [] v.t = "str" -> FloatOfParse(ParseNumber(v.s, TRUE))
      [] OTHER -> [ok |-> FALSE, v |-> v]

InList(x, l) == \E i \in DOMAIN l : l[i] = x

\* dict.get(key, default)
Get(d, key, default) == IF key \in DOMAIN d THEN d[key] ELSE default

\* ------------------------------------------------------- SettingMetadata

\* the messages validate_value returns
EmptyMsg == [kind |-> "empty"]
\* f"Type conversion failed: {e}": the exception's text quotes a str it could
\* not parse, and names only the type of any other object
ConversionFailed(target, v) ==
    [kind |-> "conversion", target |-> target,
     literal |-> IF v.t = "str" THEN v.s ELSE <<>>,
     argtype |-> IF v.t = "str" THEN "" ELSE v.t]
InvalidOption(v, opts) == [kind |-> "option", value |-> PyStr(v), valid |-> opts]
BelowMinimum(v, b) == [kind |-> "below", value |-> v, bound |-> b]
AboveMaximum(v, b) == [kind |-> "above", value |-> v, bound |-> b]
\* f"Value {value} " + ", ".join(warnings)
Advisory(v, parts) == [kind |-> "advisory", value |-> v, parts |-> parts]
BelowRecommended(b) == [dir |-> "below", bound |-> b]
AboveRecommended(b) == [dir |-> "above", bound |-> b]

Return(valid, msg) == [out |-> "return", valid |-> valid, msg |-> msg]
\* an exception that leaves the function
Raise(what) == [out |-> "raise", valid |-> FALSE, msg |-> [kind |-> what]]

get_type(settings, setting_key) ==
    IF setting_key \notin DOMAIN settings THEN "unknown"
    ELSE Get(settings[setting_key], "type", "unknown")

is_per_extruder(settings, setting_key) ==
    IF setting_key \notin DOMAIN settings THEN FALSE
    ELSE Get(settings[setting_key], "settable_per_extruder", FALSE)

\* the try block of validate_value: [ok, v] with v the coerced value, or
\* [ok |-> FALSE, msg] when it returns a rejection
BoolOfString(s) == StrLower(s) \in {<<"t","r","u","e">>, <<"1">>, <<"y","e","s">>}

Coerced(v) == [ok |-> TRUE, v |-> v, msg |-> EmptyMsg]
Rejected(value, msg) == [ok |-> FALSE, v |-> value, msg |-> msg]
\* the value int() or float() made, or the rejection its exception becomes
\* int(inf) raises OverflowError, which the except clause does not name
Converted(target, value, c) ==
    IF c.ok THEN Coerced(c.v)
    ELSE IF target = "int" /\ value = InfV THEN Rejected(value, [kind |-> "OverflowError"])
    ELSE Rejected(value, ConversionFailed(target, value))

\* a coercion that takes only the three words for true
Coerce_words_only(info, value) ==
    IF Get(info, "type", "unknown") = "bool" /\ value.t # "bool"
    THEN Coerced(BoolV(value.t = "str" /\ BoolOfString(value.s)))
    ELSE Coerced(value)

Coerce(info, value) ==
    CASE Get(info, "type", "unknown") = "int" ->
            IF value.t # "int" THEN Converted("int", value, PyInt(value)) ELSE Coerced(value)
      [] Get(info, "type", "unknown") = "float" ->
            IF value.t \notin {"int", "float"} THEN Converted("float", value, PyFloat(value))
            ELSE Coerced(value)
      [] Get(info, "type", "unknown") = "bool" ->
            IF value.t # "bool"
            THEN IF value.t = "str" THEN Coerced(BoolV(BoolOfString(value.s)))
                 ELSE Coerced(BoolV(Truthy(value)))
            ELSE Coerced(value)
      [] Get(info, "type", "unknown") = "enum" ->
            IF value.t = "list"
            THEN \* unhashable: the dict lookup raises TypeError, caught below it
                 Rejected(value, ConversionFailed("hash", value))
            ELSE IF ~(value.t = "str" /\ InList(value.s, Get(info, "options", <<>>)))
            THEN Rejected(value, InvalidOption(value, Get(info, "options", <<>>)))
            ELSE Coerced(value)
      [] OTHER -> Coerced(value)

\* the range check of validate_value on the coerced value
RangeCheck(info, value) ==
    LET min_val == Get(info, "minimum_value", NoneV)
        max_val == Get(info, "maximum_value", NoneV)
        min_warn == Get(info, "minimum_value_warning", NoneV)
        max_warn == Get(info, "maximum_value_warning", NoneV)
        lowWarn == IF min_warn # NoneV /\ NumLess(value, min_warn)
                   THEN <<BelowRecommended(min_warn)>> ELSE <<>>
        highWarn == IF max_warn # NoneV /\ NumLess(max_warn, value)
                    THEN <<AboveRecommended(max_warn)>> ELSE <<>>
        warnings == lowWarn \o highWarn
    IN  IF min_val # NoneV /\ ~IsNumber(min_val) THEN Raise("TypeError")
        ELSE IF min_val # NoneV /\ NumLess(value, min_val)
        THEN Return(FALSE, BelowMinimum(value, min_val))
        ELSE IF max_val # NoneV /\ ~IsNumber(max_val) THEN Raise("TypeError")
        ELSE IF max_val # NoneV /\ NumLess(max_val, value)
        THEN Return(FALSE, AboveMaximum(value, max_val))
        ELSE IF min_warn # NoneV /\ ~IsNumber(min_warn) THEN Raise("TypeError")
        ELSE IF max_warn # NoneV /\ ~IsNumber(max_warn) THEN Raise("TypeError")
        ELSE IF warnings # <<>> THEN Return(TRUE, Advisory(value, warnings))
        ELSE Return(TRUE, EmptyMsg)

\* lines 480-502: what validate_value returns for the outcome c of its try block
AfterCoercion(info, c) ==
    IF ~c.ok /\ c.msg.kind = "OverflowError" THEN Raise("OverflowError")
    ELSE IF ~c.ok THEN Return(FALSE, c.msg)
    ELSE IF Get(info, "type", "unknown") \in {"int", "float"} THEN RangeCheck(info, c.v)
    ELSE Return(TRUE, EmptyMsg)

\* a validator that rejects the keys it has no record of
validate_value_known_only(settings, setting_key, value) ==
    IF setting_key \notin DOMAIN settings THEN Return(FALSE, [kind |-> "unknown key"])
    ELSE AfterCoercion(settings[setting_key], Coerce(settings[setting_key], value))

validate_value(settings, setting_key, value) ==
    IF setting_key \notin DOMAIN settings THEN Return(TRUE, EmptyMsg)
    ELSE AfterCoercion(settings[setting_key], Coerce(settings[setting_key], value))

RECURSIVE Escape_newlines_only(_)
\* an escape that leaves tabs as they are
Escape_newlines_only(s) ==
    LET sp == {i \in DOMAIN s : s[i] = "\n"}
    IN  IF sp = {} THEN s
        ELSE LET p == CHOOSE i \in sp : \A j \in sp : i <= j
             IN  SubSeq(s, 1, p - 1) \o <<"\\", "n">> \o Escape_newlines_only(SubSeq(s, p + 1, Len(s)))

\* str.replace("\n", "\\n").replace("\t", "\\t")
RECURSIVE Escape(_)
Escape(s) ==
    LET sp == {i \in DOMAIN s : s[i] \in {"\n", "\t"}}
    IN  IF sp = {} THEN s
        ELSE LET p == CHOOSE i \in sp : \A j \in sp : i <= j
             IN  SubSeq(s, 1, p - 1) \o <<"\\", IF s[p] = "\n" THEN "n" ELSE "t">>
                    \o Escape(SubSeq(s, p + 1, Len(s)))

format_value_for_cfg(settings, setting_key, value) ==
    LET setting_type == get_type(settings, setting_key)
    IN  IF setting_type = "bool"
        THEN (IF Truthy(value) THEN <<"T","r","u","e">> ELSE <<"F","a","l","s","e">>)
        ELSE IF setting_type \in {"str", "extruder"}
        THEN (IF value.t = "str" THEN Escape(value.s) ELSE PyStr(value))
        ELSE PyStr(value)

\* ------------------------------------------------------------ dict, text

\* A dict that keeps insertion order: a sequence of [k, v] with distinct k.
\* one entry of a dict
E(k, v) == [k |-> k, v |-> v]
Keys(d) == {d[i].k : i \in DOMAIN d}
KeyList(d) == [i \in DOMAIN d |-> d[i].k]
Lookup(d, k) == d[CHOOSE i \in DOMAIN d : d[i].k = k].v
\* d[k] = v: a key already present keeps its place
DictSet(d, k, v) ==
    IF k \in Keys(d)
    THEN [i \in DOMAIN d |-> IF d[i].k = k THEN [k |-> k, v |-> v] ELSE d[i]]
    ELSE Append(d, [k |-> k, v |-> v])
RECURSIVE DictUpdate(_, _)
\* d.update(e)
DictUpdate(d, e) == IF e = <<>> THEN d ELSE DictUpdate(DictSet(d, Head(e).k, Head(e).v), Tail(e))

RECURSIVE SplitLines(_, _)
\* value.replace("\n", "\n\t"), as the lines it makes: a continuation line starts
\* with a tab.  s is the text left, lead what the line it starts begins with.
SplitLines(s, lead) ==
    LET nl == {i \in DOMAIN s : s[i] = "\n"}
    IN  IF nl = {} THEN <<lead \o s>>
        ELSE LET p == CHOOSE i \in nl : \A j \in nl : i <= j
             IN  <<lead \o SubSeq(s, 1, p - 1)>> \o SplitLines(SubSeq(s, p + 1, Len(s)), <<"\t">>)

\* RawConfigParser._write_section: one section's lines, with the blank line
\* that ends it
RECURSIVE WriteItems(_)
WriteItems(d) ==
    IF d = <<>> THEN <<>>
    ELSE SplitLines(Head(d).k \o <<" ", "=", " ">> \o Head(d).v, <<>>) \o WriteItems(Tail(d))
WriteSection(name, items) == <<(<<"[">> \o name \o <<"]">>)>> \o WriteItems(items) \o << <<>> >>

RECURSIVE SetOptions_newest_first(_, _)
\* a section that lists the option set last first
SetOptions_newest_first(section, d) ==
    IF d = <<>> THEN section
    ELSE SetOptions_newest_first(
            IF StrLower(Head(d).k) \in Keys(section)
            THEN DictSet(section, StrLower(Head(d).k), Head(d).v)
            ELSE <<[k |-> StrLower(Head(d).k), v |-> Head(d).v]>> \o section,
            Tail(d))

\* configparser stores an option under optionxform(key) = key.lower()
RECURSIVE SetOptions(_, _)
SetOptions(section, d) ==
    IF d = <<>> THEN section
    ELSE SetOptions(DictSet(section, StrLower(Head(d).k), Head(d).v), Tail(d))

\* order of characters (code points) and of strings, for sorted()
CharOrder == <<"\t", "\n", " ", "-", ".">> \o Digits \o <<"=">> \o Upper
                \o <<"[", "\\", "]", "_">> \o Lower
CharOrd(c) == CHOOSE i \in DOMAIN CharOrder : CharOrder[i] = c
RECURSIVE StrLess(_, _)
StrLess(a, b) ==
    IF b = <<>> THEN FALSE
    ELSE IF a = <<>> THEN TRUE
    ELSE IF Head(a) = Head(b) THEN StrLess(Tail(a), Tail(b))
    ELSE CharOrd(Head(a)) < CharOrd(Head(b))
RECURSIVE Sorted(_)
\* sorted(names) of a set of strings
Sorted(S) ==
    IF S = {} THEN <<>>
    ELSE LET m == CHOOSE a \in S : \A b \in S \ {a} : StrLess(a, b)
         IN  <<m>> \o Sorted(S \ {m})

\* ------------------------------------------------------------ CuraBuilder

VARIABLES
    disk,                   \* what the builder finds on disk (read-only input)
    md_settings,            \* self.metadata.settings
    md_loaded,              \* self.metadata.loaded
    setting_version,        \* self.setting_version, 0 for None
    available_definitions,  \* self.available_definitions
    phase,                  \* "new" after construction, "ready" after initialize(),
                            \* "done" when the run has ended
    archive,                \* the file at the output path
    presets,                \* the module's tables MATERIAL_PRESETS and QUALITY_PRESETS
    caller,                 \* the maps the caller handed to the latest operation,
                            \* as the operation left them
    last                    \* the last operation: its arguments and what it returned

vars == <<disk, md_settings, md_loaded, setting_version, available_definitions,
          phase, archive, presets, caller, last>>

DefaultSettingVersion == 23

Chars_fdmprinter == <<"f","d","m","p","r","i","n","t","e","r">>
Chars_fdmextruder == <<"f","d","m","e","x","t","r","u","d","e","r">>
Chars_normal == <<"n","o","r","m","a","l">>

\* ------------------------------------------------ extract_settings_from_def

\* A definition document is what parse_def_json returns: _filename, and the
\* sections settings and overrides where the file has them.  A node of the
\* settings tree has properties (props, by name) and children (by key, none
\* when the node has no children entry).  A record is a function from the
\* names of its fields.
PropNames ==
    { "default_value", "value", "type", "description", "unit", "minimum_value",
      "maximum_value", "minimum_value_warning", "maximum_value_warning", "enabled",
      "settable_per_mesh", "settable_per_extruder", "settable_globally", "options", "label" }
EmptyRecord == [f \in {} |-> 0]
IsCategory(node) == "type" \in DOMAIN node.props /\ node.props["type"] = "category"
IsSetting(node) == "type" \in DOMAIN node.props /\ node.props["type"] # "category"

\* lines 356-363: the record of a setting node
SettingInfo(node, current_category) ==
    [f \in {"_category"} \cup (DOMAIN node.props \cap PropNames) |->
        IF f = "_category" THEN current_category ELSE node.props[f]]

RECURSIVE recurse(_, _, _, _)
RECURSIVE RecurseChildren(_, _, _)
\* lines 350-352: the children of a node, in order
RecurseChildren(children, category, settings) ==
    IF children = <<>> THEN settings
    ELSE RecurseChildren(Tail(children), category,
            recurse(Head(children).v, Head(children).k, category, settings))
\* lines 344-365: the children first, then the node itself
recurse(node, path, category, settings) ==
    IF IsSetting(node)
    THEN (path :> SettingInfo(node, category))
            @@ RecurseChildren(node.children, category, settings)
    ELSE RecurseChildren(node.children, IF IsCategory(node) THEN path ELSE category, settings)

RECURSIVE RecurseCategories(_, _)
\* lines 367-369: every entry of the settings section, with its key as category
RecurseCategories(categories, settings) ==
    IF categories = <<>> THEN settings
    ELSE RecurseCategories(Tail(categories),
            recurse(Head(categories).v, Head(categories).k, Head(categories).k, settings))

\* an override that gives way to the fields the record has
MergeOverride_base_wins(base, override, filename) ==
    ("_source" :> filename) @@ base @@ override

\* lines 372-374: dict.update with the override, then the _source field
MergeOverride(base, override, filename) ==
    ("_source" :> filename) @@ override @@ base

RECURSIVE ApplyOverrides_known_only(_, _, _)
\* overrides that are dropped when the settings tree has no such key
ApplyOverrides_known_only(overrides, settings, filename) ==
    IF overrides = <<>> THEN settings
    ELSE ApplyOverrides_known_only(Tail(overrides),
            IF Head(overrides).k \in DOMAIN settings
            THEN (Head(overrides).k :>
                    MergeOverride(settings[Head(overrides).k], Head(overrides).v, filename))
                 @@ settings
            ELSE settings,
            filename)

RECURSIVE ApplyOverrides(_, _, _)
\* lines 371-374: every entry of the overrides section, in order
ApplyOverrides(overrides, settings, filename) ==
    IF overrides = <<>> THEN settings
    ELSE ApplyOverrides(Tail(overrides),
            (Head(overrides).k :>
                MergeOverride(IF Head(overrides).k \in DOMAIN settings
                              THEN settings[Head(overrides).k] ELSE EmptyRecord,
                              Head(overrides).v, filename))
            @@ settings,
            filename)

\* what the settings section alone gives
TreeSettings(def_data) ==
    IF def_data.has_settings THEN RecurseCategories(def_data.settings, <<>>) ELSE <<>>

extract_settings_from_def(def_data) ==
    IF def_data.has_overrides
    THEN ApplyOverrides(def_data.overrides, TreeSettings(def_data), def_data.filename)
    ELSE TreeSettings(def_data)

\* a load that goes on with the file's settings whatever state the file is in
load_ignoring_failure == [ok |-> TRUE, settings |-> extract_settings_from_def(disk.def_data)]

\* SettingMetadata.load: [ok, settings]
load ==
    IF disk.fdm # "ok" THEN [ok |-> FALSE, settings |-> md_settings]
    ELSE [ok |-> TRUE, settings |-> extract_settings_from_def(disk.def_data)]

_detect_setting_version == disk.sv

\* Path.stem of the file <name>.def.json: only the last suffix is removed
Stem(name) == name \o <<".","d","e","f">>

_discover_definitions ==
    IF ~disk.install THEN <<>>
    ELSE Sorted({ Stem(name) : name \in disk.defs } \ {Chars_fdmprinter, Chars_fdmextruder})

validate_definition(definition_name) ==
    InList(definition_name, available_definitions) \/ definition_name = Chars_fdmprinter

\* lines 661-665: one entry's result r added to the lists so far
Collect(acc, key, r) ==
    IF acc.out = "raise" THEN acc
    ELSE IF r.out = "raise" THEN [acc EXCEPT !.out = "raise", !.all_valid = FALSE]
    ELSE IF ~r.valid
    THEN [acc EXCEPT !.errors = Append(@, [key |-> key, msg |-> r.msg]), !.all_valid = FALSE]
    ELSE IF r.msg # EmptyMsg
    THEN [acc EXCEPT !.warnings = Append(@, [key |-> key, msg |-> r.msg])]
    ELSE acc

RECURSIVE ValidateLoop(_, _)
\* the loop of validate_settings over the entries that are left
ValidateLoop(d, acc) ==
    IF d = <<>> THEN acc
    ELSE ValidateLoop(Tail(d), Collect(acc, Head(d).k, validate_value(md_settings, Head(d).k, Head(d).v)))

validate_settings(d) ==
    IF ~md_loaded
    THEN [out |-> "return", all_valid |-> TRUE, errors |-> <<>>,
          warnings |-> <<[key |-> <<>>, msg |-> [kind |-> "skipped"]]>>]
    ELSE ValidateLoop(d, [out |-> "return", all_valid |-> TRUE, errors |-> <<>>, warnings |-> <<>>])

\* a formatter that looks at what an earlier build left at the output path
FormatAll_by_archive(d) ==
    [i \in DOMAIN d |->
        [k |-> d[i].k,
         v |-> IF archive.state = "complete" THEN <<>>
               ELSE IF md_loaded THEN format_value_for_cfg(md_settings, d[i].k, d[i].v)
               ELSE PyStr(d[i].v)]]

\* the values section's options: each setting formatted
FormatAll(d) ==
    [i \in DOMAIN d |->
        [k |-> d[i].k,
         v |-> IF md_loaded THEN format_value_for_cfg(md_settings, d[i].k, d[i].v)
               ELSE PyStr(d[i].v)]]

Opt(k, v) == [k |-> k, v |-> v]

\* the text of a .inst.cfg file, as its lines
generate_inst_cfg(profile_name, definition, quality_type, d, is_extruder, extruder_position) ==
    LET general == SetOptions(<<>>, <<Opt(<<"v","e","r","s","i","o","n">>, <<"4">>),
                                      Opt(<<"n","a","m","e">>, profile_name),
                                      Opt(<<"d","e","f","i","n","i","t","i","o","n">>, definition)>>)
        sv == IF setting_version # 0 THEN setting_version ELSE DefaultSettingVersion
        meta0 == SetOptions(<<>>,
                    <<Opt(<<"t","y","p","e">>,
                          <<"q","u","a","l","i","t","y","_","c","h","a","n","g","e","s">>),
                      Opt(<<"q","u","a","l","i","t","y","_","t","y","p","e">>, quality_type),
                      Opt(<<"s","e","t","t","i","n","g","_","v","e","r","s","i","o","n">>,
                          IntStr(sv))>>)
        metadata == IF is_extruder
                    THEN DictSet(meta0, <<"p","o","s","i","t","i","o","n">>, IntStr(extruder_position))
                    ELSE meta0
        values == SetOptions(<<>>, FormatAll(d))
    IN  WriteSection(<<"g","e","n","e","r","a","l">>, general)
            \o WriteSection(<<"m","e","t","a","d","a","t","a">>, metadata)
            \o (IF d # <<>> THEN WriteSection(<<"v","a","l","u","e","s">>, values) ELSE <<>>)

RECURSIVE Partition_keeping_global(_, _, _)
\* a split that leaves a per-extruder setting in the global group too
Partition_keeping_global(d, global_only, extruder_only) ==
    IF d = <<>> THEN [global_only |-> global_only, extruder_only |-> extruder_only]
    ELSE Partition_keeping_global(Tail(d), DictSet(global_only, Head(d).k, Head(d).v),
            IF md_loaded /\ is_per_extruder(md_settings, Head(d).k)
            THEN DictSet(extruder_only, Head(d).k, Head(d).v) ELSE extruder_only)

\* lines 753-761: the candidate map split by is_per_extruder
RECURSIVE Partition(_, _, _)
Partition(d, global_only, extruder_only) ==
    IF d = <<>> THEN [global_only |-> global_only, extruder_only |-> extruder_only]
    ELSE IF md_loaded /\ is_per_extruder(md_settings, Head(d).k)
    THEN Partition(Tail(d), global_only, DictSet(extruder_only, Head(d).k, Head(d).v))
    ELSE Partition(Tail(d), DictSet(global_only, Head(d).k, Head(d).v), extruder_only)

RECURSIVE MergeExtruders_defaults_win(_, _)
\* a merge in which the default routing's value beats the override's
MergeExtruders_defaults_win(merged, extruder_settings) ==
    IF extruder_settings = <<>> THEN merged
    ELSE LET pos == Head(extruder_settings).k
             base == IF pos \in Keys(merged) THEN Lookup(merged, pos) ELSE <<>>
         IN  MergeExtruders_defaults_win(
                DictSet(merged, pos, DictUpdate(DictUpdate(base, Head(extruder_settings).v), base)),
                Tail(extruder_settings))

RECURSIVE MergeExtruders(_, _)
\* lines 780-783: each position's override settings merged over the groups so far
MergeExtruders(merged, extruder_settings) ==
    IF extruder_settings = <<>> THEN merged
    ELSE LET pos == Head(extruder_settings).k
             base == IF pos \in Keys(merged) THEN Lookup(merged, pos) ELSE <<>>
         IN  MergeExtruders(DictSet(merged, pos, DictUpdate(base, Head(extruder_settings).v)),
                            Tail(extruder_settings))

\* lines 776-783: the groups by extruder position
merged_extruder(extruder_only, extruder_settings) ==
    IF extruder_only # <<>> \/ extruder_settings # <<>>
    THEN MergeExtruders(<<[k |-> 0, v |-> extruder_only]>>, extruder_settings)
    ELSE <<>>

\* re.sub(r'[^\w\-]', '_', profile_name)
SafeName(name) ==
    [i \in DOMAIN name |->
        IF IsUpper(name[i]) \/ IsLowerCh(name[i]) \/ IsDigit(name[i]) \/ name[i] \in {"_", "-"}
        THEN name[i] ELSE "_"]

Chars_inst_cfg == <<".","i","n","s","t",".","c","f","g">>
Chars_extruder == <<"_","e","x","t","r","u","d","e","r","_">>

RECURSIVE SelectNonEmpty(_)
SelectNonEmpty(groups) ==
    IF groups = <<>> THEN <<>>
    ELSE (IF Head(groups).v # <<>> THEN <<Head(groups)>> ELSE <<>>) \o SelectNonEmpty(Tail(groups))

NoArchive == [state |-> "absent", members |-> <<>>]
NoGroups == [global_only |-> <<>>, extruders |-> <<>>]

\* zipfile.ZipFile(output_path, 'w') and the writestr calls.  failure is what the
\* file system does: "none", "open" (the file cannot be created), "write0" or
\* "write1" (an error once 0 or 1 members are written).
WriteZip(members, failure) ==
    CASE failure = "none" -> [state |-> "complete", members |-> members]
      [] failure = "open" -> archive
      [] failure = "write0" -> [state |-> "partial", members |-> <<>>]
      [] OTHER -> [state |-> "partial", members |-> SubSeq(members, 1, 1)]

\* what build_curaprofile returns on a failure before anything is written
BuildFailed(out, why, detail) ==
    [out |-> out, success |-> FALSE, message |-> why, detail |-> detail,
     groups |-> NoGroups, files |-> <<>>, archive |-> archive]

\* lines 806-816: the archive written and the result returned
WriteArchive(global_only, groups, members, warnings, failure) ==
    [out |-> "return",
     success |-> failure = "none",
     message |-> IF failure = "none" THEN "Created" ELSE "Failed to create profile",
     detail |-> warnings,
     groups |-> [global_only |-> global_only, extruders |-> groups],
     files |-> members,
     archive |-> WriteZip(members, failure)]

\* lines 763-794 and 809-811: the archive's members, the global file first
Members(profile_name, definition, quality_type, global_only, groups) ==
    <<[name |-> SafeName(profile_name) \o Chars_inst_cfg,
       text |-> generate_inst_cfg(profile_name, definition, quality_type, global_only, FALSE, 0)]>>
    \o [i \in DOMAIN groups |->
            [name |-> SafeName(profile_name) \o Chars_extruder \o IntStr(groups[i].k)
                        \o Chars_inst_cfg,
             text |-> generate_inst_cfg(profile_name, definition, quality_type,
                                        groups[i].v, TRUE, groups[i].k)]]

\* lines 753-816: a validated candidate map partitioned, serialized and packed
BuildGroups(profile_name, definition, quality_type, global_only, groups, warnings, failure) ==
    WriteArchive(global_only, groups,
                 Members(profile_name, definition, quality_type, global_only, groups),
                 warnings, failure)

BuildValidated(profile_name, definition, quality_type, part, extruder_settings, warnings, failure) ==
    BuildGroups(profile_name, definition, quality_type, part.global_only,
                SelectNonEmpty(merged_extruder(part.extruder_only, extruder_settings)),
                warnings, failure)

\* lines 743-751: the result of validate_settings acted on
AfterValidation(v, profile_name, definition, quality_type, global_settings, extruder_settings, failure) ==
    IF v.out = "raise" THEN BuildFailed("raise", "TypeError", <<>>)
    ELSE IF ~v.all_valid THEN BuildFailed("return", "Validation errors", v.errors)
    ELSE BuildValidated(profile_name, definition, quality_type,
                        Partition(global_settings, <<>>, <<>>), extruder_settings,
                        v.warnings, failure)

\* build_curaprofile: what it returns, the groups and files it made, and the
\* archive it leaves at the output path
build_curaprofile(profile_name, definition, quality_type, global_settings, extruder_settings, failure) ==
    IF available_definitions # <<>> /\ ~validate_definition(definition)
    THEN BuildFailed("return", "Unknown definition",
              SubSeq(available_definitions, 1,
                     IF Len(available_definitions) < 10 THEN Len(available_definitions) ELSE 10))
    ELSE AfterValidation(validate_settings(global_settings), profile_name, definition,
                         quality_type, global_settings, extruder_settings, failure)

\* ---------------------------------------------------------------- presets

Chars_material_print_temperature == <<"m","a","t","e","r","i","a","l","_","p","r","i","n","t","_","t","e","m","p","e","r","a","t","u","r","e">>
Chars_material_bed_temperature == <<"m","a","t","e","r","i","a","l","_","b","e","d","_","t","e","m","p","e","r","a","t","u","r","e">>
Chars_speed_print == <<"s","p","e","e","d","_","p","r","i","n","t">>
Chars_retraction_amount == <<"r","e","t","r","a","c","t","i","o","n","_","a","m","o","u","n","t">>
Chars_retraction_speed == <<"r","e","t","r","a","c","t","i","o","n","_","s","p","e","e","d">>
Chars_cool_fan_speed == <<"c","o","o","l","_","f","a","n","_","s","p","e","e","d">>
Chars_layer_height == <<"l","a","y","e","r","_","h","e","i","g","h","t">>
Chars_layer_height_0 == <<"l","a","y","e","r","_","h","e","i","g","h","t","_","0">>

\* MATERIAL_PRESETS: the settings of each material, by name
MATERIAL_PRESETS ==
    <<[k |-> <<"P","L","A">>, v |-> <<[k |-> Chars_material_print_temperature, v |-> IntV(200)],
            [k |-> Chars_material_bed_temperature, v |-> IntV(60)],
            [k |-> Chars_speed_print, v |-> IntV(50)],
            [k |-> Chars_retraction_amount, v |-> DecV(80)],
            [k |-> Chars_retraction_speed, v |-> IntV(45)],
            [k |-> Chars_cool_fan_speed, v |-> IntV(100)]>>],
      [k |-> <<"P","E","T","G">>, v |-> <<[k |-> Chars_material_print_temperature, v |-> IntV(240)],
            [k |-> Chars_material_bed_temperature, v |-> IntV(80)],
            [k |-> Chars_speed_print, v |-> IntV(40)],
            [k |-> Chars_retraction_amount, v |-> DecV(100)],
            [k |-> Chars_retraction_speed, v |-> IntV(35)],
            [k |-> Chars_cool_fan_speed, v |-> IntV(50)]>>],
      [k |-> <<"A","B","S">>, v |-> <<[k |-> Chars_material_print_temperature, v |-> IntV(240)],
            [k |-> Chars_material_bed_temperature, v |-> IntV(100)],
            [k |-> Chars_speed_print, v |-> IntV(50)],
            [k |-> Chars_retraction_amount, v |-> DecV(80)],
            [k |-> Chars_retraction_speed, v |-> IntV(45)],
            [k |-> Chars_cool_fan_speed, v |-> IntV(0)]>>],
      [k |-> <<"T","P","U">>, v |-> <<[k |-> Chars_material_print_temperature, v |-> IntV(230)],
            [k |-> Chars_material_bed_temperature, v |-> IntV(60)],
            [k |-> Chars_speed_print, v |-> IntV(25)],
            [k |-> Chars_retraction_amount, v |-> DecV(200)],
            [k |-> Chars_retraction_speed, v |-> IntV(25)],
            [k |-> Chars_cool_fan_speed, v |-> IntV(100)]>>],
      [k |-> <<"A","S","A">>, v |-> <<[k |-> Chars_material_print_temperature, v |-> IntV(260)],
            [k |-> Chars_material_bed_temperature, v |-> IntV(100)],
            [k |-> Chars_speed_print, v |-> IntV(50)],
            [k |-> Chars_retraction_amount, v |-> DecV(80)],
            [k |-> Chars_retraction_speed, v |-> IntV(45)],
            [k |-> Chars_cool_fan_speed, v |-> IntV(30)]>>]>>

\* QUALITY_PRESETS: the settings of each quality, by name
QUALITY_PRESETS ==
    <<[k |-> <<"d","r","a","f","t">>, v |-> <<[k |-> Chars_layer_height, v |-> DecV(28)],
            [k |-> Chars_layer_height_0, v |-> DecV(28)]>>],
      [k |-> <<"n","o","r","m","a","l">>, v |-> <<[k |-> Chars_layer_height, v |-> DecV(20)],
            [k |-> Chars_layer_height_0, v |-> DecV(20)]>>],
      [k |-> <<"f","i","n","e">>, v |-> <<[k |-> Chars_layer_height, v |-> DecV(12)],
            [k |-> Chars_layer_height_0, v |-> DecV(20)]>>],
      [k |-> <<"u","l","t","r","a">>, v |-> <<[k |-> Chars_layer_height, v |-> DecV(8)],
            [k |-> Chars_layer_height_0, v |-> DecV(16)]>>]>>

\* a preset over the overrides: the presets are merged last
PresetSettings_overrides_first(material_upper, quality_lower, custom_overrides) ==
    DictUpdate(DictUpdate(custom_overrides, Lookup(presets.quality, quality_lower)),
               Lookup(presets.material, material_upper))

\* lines 839-845: the candidate map of a preset build
PresetSettings(material_upper, quality_lower, custom_overrides) ==
    DictUpdate(DictUpdate(DictUpdate(<<>>, Lookup(presets.quality, quality_lower)),
                          Lookup(presets.material, material_upper)),
               custom_overrides)

\* lines 832-837: both names are names of presets
PresetsKnown(material_preset, quality_preset) ==
    /\ StrUpper(material_preset) \in Keys(presets.material)
    /\ StrLower(quality_preset) \in Keys(presets.quality)

\* a merge into the quality preset's own dict instead of a new one
PresetsAfter_merged_in_place(material_preset, quality_preset, custom_overrides) ==
    IF ~PresetsKnown(material_preset, quality_preset) THEN presets
    ELSE [presets EXCEPT !.quality =
            DictSet(@, StrLower(quality_preset),
                    PresetSettings(StrUpper(material_preset), StrLower(quality_preset),
                                   custom_overrides))]

\* lines 830-845: the tables once build_from_preset is through.  An unknown name
\* returns before the merge; the merge starts from a new dict (line 840) and
\* update writes into that dict only, so the tables are only read
PresetsAfter(material_preset, quality_preset, custom_overrides) == presets

build_from_preset(profile_name, definition, material_preset, quality_preset, custom_overrides, failure) ==
    IF StrUpper(material_preset) \notin Keys(presets.material)
    THEN BuildFailed("return", "Unknown material", KeyList(presets.material))
    ELSE IF StrLower(quality_preset) \notin Keys(presets.quality)
    THEN BuildFailed("return", "Unknown quality", KeyList(presets.quality))
    ELSE build_curaprofile(profile_name, definition, StrLower(quality_preset),
            PresetSettings(StrUpper(material_preset), StrLower(quality_preset), custom_overrides),
            <<>>, failure)

\* ---------------------------------------------------------- build_from_json

\* A JSON document is what json.load returns for an object: _key_settings and
\* machine may be absent; an info is a JSON object (dict, fields by name) or
\* any other JSON value (v).
InfoDict(fields) == [dict |-> TRUE, fields |-> fields, v |-> NoneV]
InfoValue(v) == [dict |-> FALSE, fields |-> <<>>, v |-> v]
\* dict.get(name) of an info object
InfoGet(info, name) == IF name \in Keys(info.fields) THEN Lookup(info.fields, name) ELSE NoneV
\* a or b
PyOr(a, b) == IF Truthy(a) THEN a ELSE b

RECURSIVE KeySettings(_, _)
\* lines 876-883: the entries of _key_settings
KeySettings(items, settings) ==
    IF items = <<>> THEN settings
    ELSE LET key == Head(items).k
             info == Head(items).v
             val == InfoGet(info, "value")
         IN  KeySettings(Tail(items),
                IF ~info.dict THEN DictSet(settings, key, info.v)
                ELSE IF val # NoneV THEN DictSet(settings, key, val)
                ELSE settings)

\* line 889: the value an effective_settings info stands for
EffectiveValue(info) ==
    PyOr(PyOr(InfoGet(info, "effective_value"), InfoGet(info, "value")),
         InfoGet(info, "default_value"))

RECURSIVE EffectiveSettings(_, _)
\* lines 887-891: the entries of machine.effective_settings; info.get on an info
\* that is no object raises AttributeError
EffectiveSettings(items, acc) ==
    IF items = <<>> \/ acc.out = "raise" THEN acc
    ELSE LET key == Head(items).k
             info == Head(items).v
         IN  EffectiveSettings(Tail(items),
                IF key \in Keys(acc.settings) THEN acc
                ELSE IF ~info.dict THEN [out |-> "raise", settings |-> acc.settings]
                ELSE IF EffectiveValue(info) # NoneV
                THEN [out |-> "ok", settings |-> DictSet(acc.settings, key, EffectiveValue(info))]
                ELSE acc)

\* lines 873-891: the settings read from the document
JsonSettings(data) ==
    EffectiveSettings(
        IF data.has_machine /\ data.has_effective THEN data.effective_settings ELSE <<>>,
        [out |-> "ok",
         settings |-> KeySettings(IF data.has_key_settings THEN data.key_settings ELSE <<>>, <<>>)])

\* lines 894-895: setting_filter, None (<<>>) or a list of keys
Filtered(settings, setting_filter) ==
    IF setting_filter = <<>> THEN settings
    ELSE SelectSeq(settings, LAMBDA e : \E i \in DOMAIN setting_filter : setting_filter[i] = e.k)

\* lines 901-909: the definition, from the arguments or from the document
JsonDefinition(data, definition) ==
    IF Truthy(definition) THEN definition.s
    ELSE IF data.has_machine /\ data.chain # <<>>
    THEN (IF Head(data.chain).has_name THEN Head(data.chain).name ELSE Chars_fdmprinter)
    ELSE Chars_fdmprinter

\* build_from_json on a file that holds data, or cannot be read or parsed
build_from_json(file, profile_name, definition, quality_type, setting_filter, failure) ==
    IF ~file.readable THEN BuildFailed("return", "Failed to read JSON", <<>>)
    ELSE IF JsonSettings(file.data).out = "raise" THEN BuildFailed("raise", "AttributeError", <<>>)
    ELSE IF Filtered(JsonSettings(file.data).settings, setting_filter) = <<>>
    THEN BuildFailed("return", "No settings found in JSON file", <<>>)
    ELSE build_curaprofile(profile_name, JsonDefinition(file.data, definition), quality_type,
            Filtered(JsonSettings(file.data).settings, setting_filter), <<>>, failure)

\* ------------------------------------------------------------------ run_cli

Chars_cura_profile_ == <<"c","u","r","a","_","p","r","o","f","i","l","e","_">>
Chars_true == <<"t","r","u","e">>
Chars_false == <<"f","a","l","s","e">>

\* line 982: the profile name derived from the stem of the JSON file's name
NameOfStem(stem) == StrTitle(Replace(Replace(stem, Chars_cura_profile_, <<>>), <<"_">>, <<" ">>))

\* a sniffer that reads every number as a float
SniffValue_float_always(value) ==
    IF StrLower(value) \in {Chars_true, Chars_false} THEN BoolV(StrLower(value) = Chars_true)
    ELSE IF PyFloat(StrV(value)).ok THEN PyFloat(StrV(value)).v ELSE StrV(value)

\* lines 1037-1045: the value of one key=value item
SniffValue(value) ==
    IF StrLower(value) \in {Chars_true, Chars_false} THEN BoolV(StrLower(value) = Chars_true)
    ELSE IF "." \in Range(value)
    THEN (IF PyFloat(StrV(value)).ok THEN PyFloat(StrV(value)).v ELSE StrV(value))
    ELSE (IF PyInt(StrV(value)).ok THEN PyInt(StrV(value)).v ELSE StrV(value))

RECURSIVE ParseItems(_, _)
\* lines 1032-1045: the items of --settings, in order
ParseItems(items, settings) ==
    IF items = <<>> THEN settings
    ELSE LET item == Head(items)
             kv == SplitOnce(item, "=")
         IN  ParseItems(Tail(items),
                IF "=" \in Range(item)
                THEN DictSet(settings, Strip(kv[1]), SniffValue(kv[2]))
                ELSE settings)

\* lines 1031-1045: the candidate map of --settings
ParseSettings(text) == ParseItems(Split(text, ","), <<>>)

\* args.quality_type or "normal"
QualityOf(args) == IF Truthy(args.quality_type) THEN args.quality_type.s ELSE Chars_normal

\* what run_cli comes to: the exit code, the build source it took, the
\* candidate map it built from the command line, and what the builder returned
CliResult(exit, source, settings, ret) ==
    [exit |-> exit, source |-> source, settings |-> settings, ret |-> ret]
NoBuild == BuildFailed("none", "", <<>>)
\* lines 1064-1074: the exit code for the builder's result; an exception ends
\* the process with a traceback and code 1
CliBuilt(source, settings, ret) ==
    CliResult(IF ret.out = "return" /\ ret.success THEN 0 ELSE 1, source, settings, ret)

\* lines 976-990
CliFromJson(args, file, failure) ==
    CliBuilt("from_json", <<>>,
        build_from_json(file,
            IF Truthy(args.name) THEN args.name.s ELSE NameOfStem(args.from_json.s),
            args.definition, QualityOf(args), <<>>, failure))

\* lines 992-1020
CliPreset(args, failure) ==
    IF "/" \notin Range(args.preset.s) THEN CliResult(1, "none", <<>>, NoBuild)
    ELSE IF ~Truthy(args.definition) THEN CliResult(1, "none", <<>>, NoBuild)
    ELSE LET mq == SplitOnce(args.preset.s, "/")
         IN  CliBuilt("preset", <<>>,
                build_from_preset(
                    IF Truthy(args.name) THEN args.name.s
                    ELSE StrUpper(mq[1]) \o <<" ">> \o StrTitle(mq[2]),
                    args.definition.s, mq[1], mq[2], <<>>, failure))

\* lines 1022-1055
CliSettings(args, failure) ==
    IF ~Truthy(args.definition) THEN CliResult(1, "none", <<>>, NoBuild)
    ELSE IF ~Truthy(args.name) THEN CliResult(1, "none", <<>>, NoBuild)
    ELSE CliBuilt("settings", ParseSettings(args.settings.s),
            build_curaprofile(args.name.s, args.definition.s, QualityOf(args),
                              ParseSettings(args.settings.s), <<>>, failure))

\* lines 973-1074: run_cli once the builder is initialized
\* file is what is at the path --from-json names
run_cli(args, file, failure) ==
    IF Truthy(args.from_json) THEN CliFromJson(args, file, failure)
    ELSE IF Truthy(args.preset) THEN CliPreset(args, failure)
    ELSE IF Truthy(args.settings) THEN CliSettings(args, failure)
    ELSE CliResult(1, "none", <<>>, NoBuild)

\* lines 1166-1171: where main sends the parsed arguments
Dispatch(args) ==
    IF Truthy(args.preset) \/ Truthy(args.from_json) \/ Truthy(args.settings) \/ args.list_presets
    THEN "run_cli" ELSE "run_gui"

\* --------------------------------------------------------------- inputs

MaxNum == 5        \* raw numbers run from -1 to MaxNum
MaxSettings == 2   \* entries of a candidate map

K_n == <<"n">>     \* the numeric setting
K_e == <<"e">>     \* an enum setting
K_b == <<"b">>     \* a bool setting, per extruder
K_s == <<"s">>     \* a str setting
K_z == <<"z">>     \* a key no definition has
K_B == <<"B">>     \* another one, which differs from K_b in case only
AllKeys == {K_n, K_e, K_b, K_s, K_z, K_B}

EnumOptions == << <<"x">>, <<"y">> >>

\* the bounds of the numeric setting: numbers, absent, or (as in Cura's own
\* definition files) a str
BoundProfiles ==
    { [min |-> IntV(0), max |-> IntV(4), minw |-> IntV(1), maxw |-> IntV(3)],
      [min |-> IntV(0), max |-> IntV(4), minw |-> NoneV, maxw |-> IntV(4)],
      [min |-> FloatV(1), max |-> FloatV(7), minw |-> FloatV(3), maxw |-> IntV(3)],
      [min |-> IntV(0), max |-> IntV(4), minw |-> IntV(3), maxw |-> IntV(1)],
      [min |-> NoneV, max |-> NoneV, minw |-> NoneV, maxw |-> NoneV],
      [min |-> NoneV, max |-> IntV(4), minw |-> IntV(1), maxw |-> NoneV],
      [min |-> StrV(<<"0">>), max |-> IntV(4), minw |-> NoneV, maxw |-> NoneV],
      [min |-> IntV(0), max |-> IntV(4), minw |-> NoneV, maxw |-> StrV(<<"3">>)] }

NumericInfo(type, b, per) ==
    [type |-> type, minimum_value |-> b.min, maximum_value |-> b.max,
     minimum_value_warning |-> b.minw, maximum_value_warning |-> b.maxw,
     settable_per_extruder |-> per]

\* the settings of a definition file, as extract_settings_from_def returns them
DefSettings(numeric) ==
    (K_n :> numeric)
    @@ (K_e :> [type |-> "enum", options |-> EnumOptions])
    @@ (K_b :> [type |-> "bool", settable_per_extruder |-> TRUE])
    @@ (K_s :> [type |-> "str", settable_per_extruder |-> FALSE])

Def_e3 == <<"e","3">>
Def_x1 == <<"x","1">>

Chars_fdmprinter_def_json == Chars_fdmprinter \o <<".","d","e","f",".","j","s","o","n">>
K_cat == <<"c">>     \* a category of the settings tree
Leaf(props) == [props |-> props, children |-> <<>>]
Node(props, children) == [props |-> props, children |-> children]
CategoryNode(children) == Node([type |-> "category", label |-> StrV(<<"C">>)], children)
DefData(has_settings, settings, has_overrides, overrides) ==
    [has_settings |-> has_settings, settings |-> settings, has_overrides |-> has_overrides,
     overrides |-> overrides, filename |-> Chars_fdmprinter_def_json]
\* fdmprinter.def.json with the four settings in one category and no overrides
PlainDef(numeric) ==
    DefData(TRUE,
        << E(K_cat, CategoryNode(<< E(K_n, Leaf(DefSettings(numeric)[K_n])),
                                    E(K_e, Leaf(DefSettings(numeric)[K_e])),
                                    E(K_b, Leaf(DefSettings(numeric)[K_b])),
                                    E(K_s, Leaf(DefSettings(numeric)[K_s])) >>)) >>,
        FALSE, <<>>)

DiskOf(install, fdm, numeric, rich) ==
    [install |-> install, fdm |-> fdm, def_data |-> PlainDef(numeric),
     sv |-> IF rich THEN 22 ELSE 0,
     defs |-> IF rich THEN {Def_x1, Def_e3, Chars_fdmprinter} ELSE {}]

DefaultNumeric == NumericInfo("int", CHOOSE b \in BoundProfiles : b.minw = IntV(1) /\ b.maxw = IntV(3), TRUE)

\* definition files with an overrides section
OverrideTree ==
    << E(K_cat, CategoryNode(
            << E(K_n, Node([type |-> "int", minimum_value |-> IntV(0), maximum_value |-> IntV(4),
                            comments |-> StrV(<<"x">>), settable_per_extruder |-> TRUE],
                           << E(K_e, Leaf([type |-> "enum", options |-> EnumOptions])) >>)),
               E(K_b, Leaf([type |-> "bool", settable_per_extruder |-> TRUE])) >>)),
       E(K_s, Leaf([type |-> "str", label |-> StrV(<<"S">>)])) >>
OverrideSections ==
    { << E(K_n, [maximum_value |-> IntV(2), default_value |-> IntV(1)]) >>,
      << E(K_e, [options |-> << <<"y">> >>]), E(K_z, [default_value |-> IntV(5)]) >>,
      << E(K_z, [type |-> "int", maximum_value |-> IntV(2)]),
         E(K_b, [_category |-> <<"o">>, settable_per_extruder |-> FALSE]) >>,
      << E(K_B, [maximum_value |-> IntV(2), label |-> StrV(<<"B">>)]),
         E(K_n, [type |-> "float", minimum_value |-> DecV(50)]) >>,
      << >> }
OverrideDefs ==
    { DefData(TRUE, OverrideTree, TRUE, o) : o \in OverrideSections }
    \cup { DefData(FALSE, <<>>, TRUE, <<E(K_n, [maximum_value |-> IntV(2)])>>),
            DefData(TRUE, OverrideTree, FALSE, <<>>) }
OverrideDisks ==
    { [DiskOf(TRUE, "ok", DefaultNumeric, TRUE) EXCEPT !.def_data = dd] : dd \in OverrideDefs }

\* every installation the validator is run on
AllDisks ==
    { DiskOf(TRUE, "ok", NumericInfo(type, b, per), rich) :
        type \in {"int", "float"}, b \in BoundProfiles, per \in BOOLEAN, rich \in BOOLEAN }
    \cup { DiskOf(TRUE, fdm, DefaultNumeric, rich) : fdm \in {"missing", "corrupt"}, rich \in BOOLEAN }
    \cup { DiskOf(FALSE, "ok", DefaultNumeric, TRUE) }

\* the installations the builder is run on
BuildDisks ==
    { DiskOf(TRUE, "ok", DefaultNumeric, TRUE),
      DiskOf(TRUE, "ok", NumericInfo("float", CHOOSE b \in BoundProfiles : b.min = FloatV(1), FALSE), FALSE),
      DiskOf(TRUE, "ok", NumericInfo("int", CHOOSE b \in BoundProfiles : b.min = StrV(<<"0">>), FALSE), TRUE),
      DiskOf(TRUE, "missing", DefaultNumeric, TRUE),
      DiskOf(TRUE, "corrupt", DefaultNumeric, FALSE),
      DiskOf(FALSE, "ok", DefaultNumeric, TRUE) }

RawStrings ==
    { <<>>, <<"t","r","u","e">>, <<"T","r","u","e">>, <<"y","e","s">>, <<"Y","E","S">>,
      <<"n","o">>, <<"f","a","l","s","e">>, <<"1">>, <<"0">>, <<"3">>, <<" ","3","\n">>,
      <<"-","1">>, <<"3",".","5">>, <<"9">>, <<"x">>, <<"X">>, <<"q","\n","r">>, <<"q","\t","r">> }

RawValues ==
    { IntV(i) : i \in -1..MaxNum }
    \cup { FloatV(h) : h \in -1..(2 * MaxNum + 1) }
    \cup { BoolV(b) : b \in BOOLEAN }
    \cup { NoneV, ListV(0), ListV(1), InfV }
    \cup { StrV(s) : s \in RawStrings }


\* the entries candidate maps are made of
Entries ==
    { E(K_n, IntV(2)), E(K_n, FloatV(7)), E(K_n, IntV(MaxNum)),
      E(K_b, BoolV(TRUE)), E(K_b, StrV(<<"n","o">>)),
      E(K_s, StrV(<<"q","\n","r">>)), E(K_s, StrV(<<"\t","\\","\n">>)),
      E(K_e, StrV(<<"x">>)),
      E(K_z, StrV(<<"q","\n","r">>)), E(K_z, IntV(2)),
      E(K_B, BoolV(FALSE)) }

RECURSIVE DictsOver(_)
\* the dicts of n entries with distinct keys
DictsOver(n) ==
    IF n = 0 THEN { <<>> }
    ELSE { Append(d, e) : d \in DictsOver(n - 1), e \in Entries } 
CandidateMaps ==
    { d \in UNION { DictsOver(n) : n \in 0..MaxSettings } :
        \A i, j \in DOMAIN d : i # j => d[i].k # d[j].k }

\* extruder_settings: None, or settings by extruder position
ExtruderMaps ==
    { <<>>,
      << [k |-> 0, v |-> <<E(K_n, IntV(1)), E(K_z, IntV(2))>>] >>,
      << [k |-> 1, v |-> <<E(K_s, StrV(<<"x">>))>>] >>,
      << [k |-> 1, v |-> <<>>], [k |-> 0, v |-> <<E(K_b, BoolV(FALSE))>>] >> }

\* profile name and definition
Headers ==
    { [name |-> <<"P">>, definition |-> Def_e3],
      [name |-> <<"a"," ","b">>, definition |-> Chars_fdmprinter],
      [name |-> <<"P">>, definition |-> Stem(Def_e3)] }
Failures == {"none", "open", "write0", "write1"}

\* material and quality names, custom overrides
PresetMaterials == { <<"P","L","A">>, <<"p","l","a">>, <<"P","e","t","g">>, <<"X","Y","Z">> }
PresetQualities == { <<"d","r","a","f","t">>, <<"F","i","n","e">>, <<"b","e","s","t">> }
Overrides ==
    { <<>>,
      <<E(Chars_layer_height, DecV(12)), E(K_n, IntV(2))>>,
      <<E(Chars_material_print_temperature, IntV(210))>> }

\* JSON documents
JsonData(has_key_settings, key_settings, has_machine, has_effective, effective_settings, chain) ==
    [has_key_settings |-> has_key_settings, key_settings |-> key_settings,
     has_machine |-> has_machine, has_effective |-> has_effective,
     effective_settings |-> effective_settings, chain |-> chain]
Unreadable == [readable |-> FALSE, data |-> JsonData(FALSE, <<>>, FALSE, FALSE, <<>>, <<>>)]
Readable(data) == [readable |-> TRUE, data |-> data]
Named(name) == [has_name |-> TRUE, name |-> name]
Unnamed == [has_name |-> FALSE, name |-> <<>>]
Stem_both == <<"c","u","r","a","_","p","r","o","f","i","l","e","_","a","_","b">>
Stem_key == <<"k">>
Stem_machine == <<"m","2","x">>
Stem_empty == <<"e","m","p","t","y">>
Stem_attr == <<"a","t","t","r">>
Stem_bad == <<"b","a","d">>
\* the files --from-json can name, by the stem of their name
JsonFiles ==
    << E(Stem_both, Readable(JsonData(TRUE,
            <<E(K_n, InfoDict(<<E("value", IntV(2))>>))>>,
            TRUE, TRUE,
            <<E(K_n, InfoDict(<<E("effective_value", IntV(3))>>)),
              E(K_b, InfoDict(<<E("effective_value", BoolV(FALSE)), E("value", BoolV(TRUE))>>))>>,
            <<Named(Stem(Def_e3))>>))),
       E(Stem_key, Readable(JsonData(TRUE,
            <<E(K_n, InfoDict(<<E("value", IntV(2))>>)), E(K_b, InfoValue(BoolV(TRUE))),
              E(K_s, InfoDict(<<E("value", NoneV)>>)), E(K_z, InfoDict(<<>>))>>,
            FALSE, FALSE, <<>>, <<>>))),
       E(Stem_machine, Readable(JsonData(FALSE, <<>>, TRUE, TRUE,
            <<E(K_n, InfoDict(<<E("effective_value", IntV(0)), E("default_value", IntV(1))>>)),
              E(K_z, InfoDict(<<E("default_value", StrV(<<"x">>))>>)),
              E(K_s, InfoDict(<<E("value", NoneV)>>))>>,
            <<Unnamed, Named(Def_e3)>>))),
       E(Stem_empty, Readable(JsonData(TRUE, <<E(K_s, InfoDict(<<>>))>>, TRUE, FALSE, <<>>, <<>>))),
       E(Stem_attr, Readable(JsonData(FALSE, <<>>, TRUE, TRUE,
            <<E(K_b, InfoDict(<<E("value", BoolV(TRUE))>>)), E(K_n, InfoValue(IntV(5)))>>, <<>>))),
       E(Stem_bad, Unreadable) >>
JsonAt(stem) == Lookup(JsonFiles, stem)
SettingFilters == { <<>>, <<K_n>>, <<K_s, K_z>> }

\* what --settings can be
SettingsTexts ==
    { <<"r","e","t","r","a","c","t","i","o","n","_","a","m","o","u","n","t","=","0",".","8",",","c","o","o","l","_","f","a","n","_","s","p","e","e","d","=","1","0","0">>,
      <<"b","=","T","R","U","E",",","n","=","3">>, <<"z","=","1",".","5",".","2">>, <<" ","s"," ","=","a",",","s","=","b">>,
      <<"n","="," ","5",",","z","=","x","=","y">>, <<"j","u","n","k">>, <<"n","=",".",",","z","=">>,
      <<"n","=","-","1",",","b","=","F","a","l","s","e">>, <<"n","=","2",".","0">>, <<"n","=","2",",",",","=","3">> }
PresetTexts == { <<"P","L","A","/","d","r","a","f","t">>, <<"p","e","t","g","/","F","i","n","e">>, <<"P","L","A">>, <<"x","/","d","r","a","f","t">>, <<"P","L","A","/","f","i","n","e","/","x">> }

\* the parsed command line
Args(from_json, preset, settings, definition, name, quality_type) ==
    [list_presets |-> FALSE, from_json |-> from_json, preset |-> preset, settings |-> settings,
     definition |-> definition, name |-> name, quality_type |-> quality_type]
OptionalStr(texts) == { NoneV } \cup { StrV(t) : t \in texts }
\* one build source, in every form
OneSource ==
    { <<StrV(j), NoneV, NoneV>> : j \in Keys(JsonFiles) }
    \cup { <<NoneV, StrV(t), NoneV>> : t \in PresetTexts }
    \cup { <<NoneV, NoneV, StrV(t)>> : t \in SettingsTexts }
\* any number of build sources
AnySources ==
    OptionalStr({Stem_key, Stem_bad}) \X OptionalStr({<<"P","L","A","/","d","r","a","f","t">>, <<"P","L","A">>}) \X OptionalStr({<<"n","=","2">>, <<>>})
CliArgs ==
    { Args(src[1], src[2], src[3], d, n, StrV(Chars_normal)) :
        src \in OneSource \cup AnySources,
        d \in OptionalStr({Chars_fdmprinter, Def_e3}), n \in OptionalStr({<<"P">>}) }
    \cup { Args(src[1], src[2], src[3], StrV(Chars_fdmprinter), StrV(<<"P">>), StrV(<<>>)) :
            src \in AnySources }

\* -------------------------------------------------------------- actions

TypeOK == phase \in {"new", "ready", "done"}

\* the maps a caller hands to an operation: settings, extruder_settings and
\* custom_overrides, empty where the operation takes no such map
Handed(settings, extruder_settings, custom_overrides) ==
    [settings |-> settings, extruder_settings |-> extruder_settings,
     custom_overrides |-> custom_overrides]
NoMaps == Handed(<<>>, <<>>, <<>>)

InitWith(disks) ==
    /\ disk \in disks
    /\ md_settings = <<>>
    /\ md_loaded = FALSE
    /\ setting_version = 0
    /\ available_definitions = <<>>
    /\ phase = "new"
    /\ archive = NoArchive
    /\ presets = [material |-> MATERIAL_PRESETS, quality |-> QUALITY_PRESETS]
    /\ caller = NoMaps
    /\ last = [op |-> "none"]

Init == InitWith(BuildDisks)

\* CuraBuilder.initialize
Initialize ==
    /\ phase = "new"
    /\ phase' = "ready"
    /\ IF ~disk.install
       THEN /\ UNCHANGED <<md_settings, md_loaded, setting_version, available_definitions>>
            /\ last' = [op |-> "initialize", success |-> FALSE]
       ELSE LET l == load
                sv == _detect_setting_version
            IN  /\ md_settings' = l.settings
                /\ md_loaded' = l.ok
                /\ setting_version' = IF sv # 0 THEN sv ELSE DefaultSettingVersion
                /\ available_definitions' = _discover_definitions
                /\ last' = [op |-> "initialize", success |-> (l.ok /\ sv # 0) \/ l.ok]
    /\ UNCHANGED <<disk, archive, presets, caller>>

\* what no operation of a ready builder assigns; a command-line run ends with
\* its one operation, a caller of the class may go on (more)
Frame(more) ==
    /\ phase = "ready"
    /\ phase' = IF more THEN "ready" ELSE "done"
    /\ UNCHANGED <<disk, md_settings, md_loaded, setting_version, available_definitions>>

\* an operation that only reads the tables and the maps it is handed: it
\* iterates over items() and assigns to no key of them
Reads(maps) == presets' = presets /\ caller' = maps

ValidateValue(k, v, more) ==
    /\ Frame(more)
    /\ Reads(NoMaps)
    /\ last' = [op |-> "validate_value", key |-> k, value |-> v,
                ret |-> validate_value(md_settings, k, v)]
    /\ UNCHANGED archive

ValidateSettings(d, more) ==
    /\ Frame(more)
    /\ Reads(Handed(d, <<>>, <<>>))
    /\ last' = [op |-> "validate_settings", settings |-> d, ret |-> validate_settings(d)]
    /\ UNCHANGED archive

\* the latest generate_inst_cfg call of this builder and the text it returned
NoCall == [args |-> [none |-> TRUE], text |-> <<>>]
PreviousCall ==
    IF last.op = "generate_inst_cfg" THEN [args |-> last.args, text |-> last.text]
    ELSE IF last.op = "build_curaprofile" THEN last.previous
    ELSE NoCall

GenerateInstCfg(h, d, is_extruder, pos, more) ==
    /\ Frame(more)
    /\ Reads(Handed(d, <<>>, <<>>))
    /\ LET args == [header |-> h, settings |-> d, is_extruder |-> is_extruder, pos |-> pos]
       IN  last' = [op |-> "generate_inst_cfg", args |-> args,
                    text |-> generate_inst_cfg(h.name, h.definition, Chars_normal, d, is_extruder, pos),
                    again |-> PreviousCall.args = args,
                    between |-> last.op = "build_curaprofile",
                    before |-> IF PreviousCall.args = args THEN PreviousCall.text ELSE <<>>]
    /\ UNCHANGED archive

\* lines 753-783: the groups are new dicts (position 0 a copy of extruder_only,
\* any other position an empty dict) and update writes into those
BuildCuraprofile(h, d, extruder_settings, failure, more) ==
    /\ Frame(more)
    /\ Reads(Handed(d, extruder_settings, <<>>))
    /\ LET r == build_curaprofile(h.name, h.definition, Chars_normal, d, extruder_settings, failure)
       IN  /\ last' = [op |-> "build_curaprofile", header |-> h, settings |-> d,
                       extruder_settings |-> extruder_settings, failure |-> failure, ret |-> r,
                       previous |-> PreviousCall]
           /\ archive' = r.archive

Next ==
    \/ Initialize
    \/ phase = "ready" /\ \E k \in AllKeys, v \in RawValues : ValidateValue(k, v, FALSE)
    \/ phase = "ready" /\ \E d \in CandidateMaps : ValidateSettings(d, FALSE)
    \/ phase = "ready" /\ \E h \in Headers, d \in CandidateMaps, x \in BOOLEAN, pos \in 0..1 :
            GenerateInstCfg(h, d, x, pos, FALSE)
    \/ phase = "ready" /\ \E h \in Headers, d \in CandidateMaps, es \in ExtruderMaps, f \in Failures :
            BuildCuraprofile(h, d, es, f, FALSE)

\* one run of the command line: initialize, then one operation
Spec == Init /\ [][Next]_vars

\* the validator alone, on every installation
InitV == InitWith(AllDisks)
NextV ==
    \/ Initialize
    \/ phase = "ready" /\ \E k \in AllKeys, v \in RawValues : ValidateValue(k, v, FALSE)
SpecV == InitV /\ [][NextV]_vars

\* the validator on definition files that have overrides
InitDef == InitWith(OverrideDisks)
NextDef ==
    \/ Initialize
    \/ phase = "ready" /\ \E k \in AllKeys, v \in RawValues : ValidateValue(k, v, FALSE)
SpecDef == InitDef /\ [][NextDef]_vars

\* a caller that keeps one builder and runs operation after operation on it
SeqDisks == { dk \in BuildDisks : dk.install /\ dk.fdm = "ok" /\ TreeSettings(dk.def_data)[K_n].minimum_value.t = "int" }
SeqHeaders == { h \in Headers : h.definition # Def_e3 }
SeqMaps ==
    { <<>>,
      <<E(K_b, StrV(<<"n","o">>))>>,
      <<E(K_z, StrV(<<"q","\n","r">>)), E(K_n, IntV(2))>> }
InitSeq == InitWith(SeqDisks)
NextSeq ==
    \/ Initialize
    \/ phase = "ready" /\ \E h \in SeqHeaders, d \in SeqMaps, x \in BOOLEAN :
            GenerateInstCfg(h, d, x, 0, TRUE)
    \/ phase = "ready" /\ \E d \in SeqMaps, es \in {<<>>, <<[k |-> 1, v |-> <<E(K_s, StrV(<<"x">>))>>]>>},
                             f \in {"none", "write0"} :
            BuildCuraprofile(CHOOSE h \in Headers : h.definition = Stem(Def_e3), d, es, f, TRUE)
SpecSeq == InitSeq /\ [][NextSeq]_vars


\* the command line: main parses the arguments and run_cli initializes the
\* builder and builds from one source; the class's other two build operations
\* are also called directly
\* what a build returned, without the file at the output path
Outcome(r) ==
    [out |-> r.out, success |-> r.success, message |-> r.message, detail |-> r.detail,
     groups |-> r.groups, files |-> r.files]
PresetArgs(h, material, quality, custom_overrides, failure) ==
    [header |-> h, material |-> material, quality |-> quality,
     custom_overrides |-> custom_overrides, failure |-> failure]
\* the first of the build_from_preset calls that were made in a row up to now,
\* and whether a call with other arguments followed it
NoPresetCall == [args |-> [none |-> TRUE], ret |-> [none |-> TRUE], others |-> FALSE]
FirstPresetCall == IF last.op = "build_from_preset" THEN last.first ELSE NoPresetCall
RememberPreset(args, r) ==
    IF FirstPresetCall.args = [none |-> TRUE]
    THEN [args |-> args, ret |-> Outcome(r), others |-> FALSE]
    ELSE [FirstPresetCall EXCEPT !.others = @ \/ FirstPresetCall.args # args]

BuildFromPreset(h, material, quality, custom_overrides, failure, more) ==
    /\ Frame(more)
    /\ presets' = PresetsAfter(material, quality, custom_overrides)
    /\ caller' = Handed(<<>>, <<>>, custom_overrides)
    /\ LET r == build_from_preset(h.name, h.definition, material, quality, custom_overrides, failure)
       IN  /\ last' = [op |-> "build_from_preset", header |-> h, material |-> material,
                       quality |-> quality, custom_overrides |-> custom_overrides,
                       failure |-> failure, ret |-> r,
                       first |-> RememberPreset(PresetArgs(h, material, quality,
                                                           custom_overrides, failure), r),
                       settings |-> IF PresetsKnown(material, quality)
                                    THEN PresetSettings(StrUpper(material), StrLower(quality),
                                                        custom_overrides)
                                    ELSE <<>>]
           /\ archive' = r.archive

BuildFromJson(stem, h, definition, setting_filter, failure, more) ==
    /\ Frame(more)
    /\ Reads(NoMaps)
    /\ LET r == build_from_json(JsonAt(stem), h.name, definition, Chars_normal, setting_filter, failure)
       IN  /\ last' = [op |-> "build_from_json", file |-> JsonAt(stem), header |-> h,
                       definition |-> definition, setting_filter |-> setting_filter,
                       failure |-> failure, ret |-> r]
           /\ archive' = r.archive

\* lines 947-960: run_cli ends before it makes a builder, on --list-presets or
\* when no install path is given or found
RunCliEarly(list_presets, install_path) ==
    /\ phase = "new"
    /\ list_presets \/ ~install_path
    /\ phase' = "done"
    /\ last' = [op |-> "run_cli_early", list_presets |-> list_presets,
                install_path |-> install_path, exit |-> IF list_presets THEN 0 ELSE 1]
    /\ UNCHANGED <<disk, md_settings, md_loaded, setting_version, available_definitions, archive,
                   presets, caller>>

\* lines 973-1074, after initialize
RunCli(args, failure) ==
    /\ Frame(FALSE)
    /\ Dispatch(args) = "run_cli"
    /\ caller' = NoMaps
    /\ LET file == IF Truthy(args.from_json) THEN JsonAt(args.from_json.s) ELSE Unreadable
           r == run_cli(args, file, failure)
       IN  /\ last' = [op |-> "run_cli", args |-> args, failure |-> failure, res |-> r]
           /\ archive' = r.ret.archive
           /\ presets' = IF r.source = "preset"
                         THEN PresetsAfter(SplitOnce(args.preset.s, "/")[1],
                                           SplitOnce(args.preset.s, "/")[2], <<>>)
                         ELSE presets

NextCli ==
    \/ Initialize
    \/ \E l, i \in BOOLEAN : RunCliEarly(l, i)
    \/ phase = "ready" /\ \E h \in Headers, m \in PresetMaterials, q \in PresetQualities, o \in Overrides,
                             f \in {"none", "write0"} :
            BuildFromPreset(h, m, q, o, f, FALSE)
    \/ phase = "ready" /\ \E j \in Keys(JsonFiles), d \in OptionalStr({Chars_fdmprinter}),
                             sf \in SettingFilters, f \in {"none", "write0"} :
            BuildFromJson(j, CHOOSE h \in Headers : h.definition = Def_e3, d, sf, f, FALSE)
    \/ phase = "ready" /\ \E args \in CliArgs, f \in {"none", "write0"} : RunCli(args, f)
SpecCli == Init /\ [][NextCli]_vars

\* a caller that keeps one builder and mixes validations, serializations and
\* builds on it
FrameDisks == { dk \in BuildDisks : dk.install }
FrameValues == { IntV(2), StrV(<<"x">>), ListV(1) }
FramePresets == { PresetArgs(CHOOSE h \in Headers : h.definition = Chars_fdmprinter, m, <<"d","r","a","f","t">>, o, "none") : m \in { <<"p","l","a">>, <<"X","Y","Z">> }, o \in Overrides }
InitFrame == InitWith(FrameDisks)
NextFrame ==
    \/ Initialize
    \/ phase = "ready" /\ \E k \in {K_n, K_z}, v \in FrameValues : ValidateValue(k, v, TRUE)
    \/ phase = "ready" /\ \E d \in SeqMaps : ValidateSettings(d, TRUE)
    \/ phase = "ready" /\ \E h \in SeqHeaders, d \in SeqMaps : GenerateInstCfg(h, d, FALSE, 0, TRUE)
    \/ phase = "ready" /\ \E d \in SeqMaps, es \in {<<>>, <<[k |-> 1, v |-> <<E(K_s, StrV(<<"x">>))>>]>>} :
            BuildCuraprofile(CHOOSE h \in Headers : h.definition = Chars_fdmprinter, d, es, "none", TRUE)
    \/ phase = "ready" /\ \E a \in FramePresets :
            BuildFromPreset(a.header, a.material, a.quality, a.custom_overrides, a.failure, TRUE)
SpecFrame == InitFrame /\ [][NextFrame]_vars

\* ---------------------------------------------------------------- claims

\* the last operation was validate_value on a setting the schema has
ValidatedKnown == last.op = "validate_value" /\ last.key \in DOMAIN md_settings
LastInfo == md_settings[last.key]
LastType == Get(LastInfo, "type", "unknown")
NativeNumber(v) == v.t \in {"int", "float"}
NumberOrNone(b) == b = NoneV \/ IsNumber(b)
Accepted(r) == r.out = "return" /\ r.valid
RejectedBy(r) == r.out = "return" /\ ~r.valid

\* C1: for an int or float setting with a hard minimum M and a hard maximum X,
\* validate_value rejects every number strictly below M or strictly above X and
\* accepts a number equal to M and a number equal to X.
C1_HardBoundsDecide ==
    (/\ ValidatedKnown
     /\ LastType \in {"int", "float"}
     /\ IsNumber(LastInfo.minimum_value) /\ IsNumber(LastInfo.maximum_value)
     /\ NumberOrNone(LastInfo.minimum_value_warning)
     /\ NumberOrNone(LastInfo.maximum_value_warning)
     /\ NativeNumber(last.value))
    => /\ (NumLess(last.value, LastInfo.minimum_value)
            \/ NumLess(LastInfo.maximum_value, last.value)) => RejectedBy(last.ret)
       /\ (Hundredths(last.value) = Hundredths(LastInfo.minimum_value)
            \/ Hundredths(last.value) = Hundredths(LastInfo.maximum_value)) => Accepted(last.ret)

\* C2: when the soft bounds lie strictly inside the hard bounds, a number between
\* a soft bound and the corresponding hard bound is accepted with one advisory
\* message, which names the soft bound that was crossed.
C2_SoftBoundAdvisory ==
    (/\ ValidatedKnown
     /\ LastType \in {"int", "float"}
     /\ IsNumber(LastInfo.minimum_value) /\ IsNumber(LastInfo.maximum_value)
     /\ IsNumber(LastInfo.minimum_value_warning) /\ IsNumber(LastInfo.maximum_value_warning)
     /\ NumLess(LastInfo.minimum_value, LastInfo.minimum_value_warning)
     /\ NumLess(LastInfo.maximum_value_warning, LastInfo.maximum_value)
     /\ NativeNumber(last.value))
    => /\ (/\ ~NumLess(last.value, LastInfo.minimum_value)
           /\ NumLess(last.value, LastInfo.minimum_value_warning))
          => /\ Accepted(last.ret)
             /\ last.ret.msg.kind = "advisory"
             /\ InList(BelowRecommended(LastInfo.minimum_value_warning), last.ret.msg.parts)
       /\ (/\ NumLess(LastInfo.maximum_value_warning, last.value)
           /\ ~NumLess(LastInfo.maximum_value, last.value))
          => /\ Accepted(last.ret)
             /\ last.ret.msg.kind = "advisory"
             /\ InList(AboveRecommended(LastInfo.maximum_value_warning), last.ret.msg.parts)

\* C3: for an enum setting, validate_value rejects every value that is not one
\* of the record's options, and the error lists every valid option.
C3_EnumErrorListsOptions ==
    (/\ ValidatedKnown
     /\ LastType = "enum"
     /\ ~(last.value.t = "str" /\ InList(last.value.s, Get(LastInfo, "options", <<>>))))
    => /\ RejectedBy(last.ret)
       /\ last.ret.msg.kind = "option"
       /\ last.ret.msg.valid = Get(LastInfo, "options", <<>>)

\* the last operation was a build that got as far as writing the archive
Built ==
    /\ last.op = "build_curaprofile"
    /\ last.ret.out = "return"
    /\ last.ret.message \in {"Created", "Failed to create profile"}
\* a group of the produced profile, and the caller's override for a position
GroupAt(groups, p) == IF p \in Keys(groups) THEN Lookup(groups, p) ELSE <<>>
Positions == 0..1
NamesKey(list, k) == \E j \in DOMAIN list : list[j].key = k

\* C4: for every key absent from the schema and every raw value, validate_value
\* accepts with an empty message, and a build neither rejects the entry nor
\* alters it: it reaches the serializer as given and is written as str(value).
C4_UnknownKeyAccepted ==
    /\ (last.op = "validate_value" /\ last.key \notin DOMAIN md_settings)
        => last.ret = Return(TRUE, EmptyMsg)
    /\ last.op = "build_curaprofile"
        => \A i \in DOMAIN last.settings :
              last.settings[i].k \notin DOMAIN md_settings
              => /\ last.ret.message = "Validation errors"
                    => ~NamesKey(last.ret.detail, last.settings[i].k)
                 /\ Built
                    => /\ last.settings[i].k \in Keys(last.ret.groups.global_only)
                       /\ Lookup(last.ret.groups.global_only, last.settings[i].k)
                            = last.settings[i].v
                       /\ \E j \in DOMAIN last.ret.groups.global_only :
                            FormatAll(last.ret.groups.global_only)[j]
                              = [k |-> last.settings[i].k, v |-> PyStr(last.settings[i].v)]
C4_Witness ==
    /\ Built /\ last.ret.success /\ md_loaded
    /\ \E i \in DOMAIN last.settings :
          /\ last.settings[i] = E(K_z, StrV(<<"q","\n","r">>))
          /\ last.ret.groups.global_only[i] = last.settings[i]
    /\ Len(last.settings) = 2

\* the entries of d that validate_value rejects, and those it accepts with a message
RejectedKeys(d) ==
    { d[i].k : i \in { j \in DOMAIN d : RejectedBy(validate_value(md_settings, d[j].k, d[j].v)) } }
AdvisedKeys(d) ==
    { d[i].k : i \in { j \in DOMAIN d :
                        /\ Accepted(validate_value(md_settings, d[j].k, d[j].v))
                        /\ validate_value(md_settings, d[j].k, d[j].v).msg # EmptyMsg } }

\* C5: validate_settings examines every entry of the candidate map, records one
\* error per rejected entry, and returns all_valid = true exactly when the error
\* list is empty; an advisory appears only among the warnings.
C5_BatchCollectsAll ==
    (last.op = "validate_settings" /\ md_loaded)
    => /\ last.ret.out = "return"
       /\ { last.ret.errors[j].key : j \in DOMAIN last.ret.errors } = RejectedKeys(last.settings)
       /\ Len(last.ret.errors) = Cardinality(RejectedKeys(last.settings))
       /\ { last.ret.warnings[j].key : j \in DOMAIN last.ret.warnings } = AdvisedKeys(last.settings)
       /\ last.ret.all_valid <=> last.ret.errors = <<>>

\* where a key of the produced profile is: -1 for the global group, or the
\* positions of the extruder groups that hold it
PlacesOf(k) ==
    (IF k \in Keys(last.ret.groups.global_only) THEN {-1} ELSE {})
    \cup { p \in Positions : k \in Keys(GroupAt(last.ret.groups.extruders, p)) }

Generated == last.op = "generate_inst_cfg"

DefaultRouted(p) ==
    IF p = 0
    THEN { k \in Keys(last.settings) : md_loaded /\ is_per_extruder(md_settings, k) }
    ELSE {}

\* C8: a per-extruder setting goes to the group of extruder 0; the override map's
\* entries for an extruder are merged over that routing: a key in both has the
\* override's value, a key in only one of them is kept.
C8_OverrideMergedPerKey ==
    Built
    => \A p \in Positions :
          /\ Keys(GroupAt(last.ret.groups.extruders, p))
                = Keys(GroupAt(last.extruder_settings, p)) \cup DefaultRouted(p)
          /\ \A k \in Keys(GroupAt(last.ret.groups.extruders, p)) :
                Lookup(GroupAt(last.ret.groups.extruders, p), k)
                  = IF k \in Keys(GroupAt(last.extruder_settings, p))
                    THEN Lookup(GroupAt(last.extruder_settings, p), k)
                    ELSE Lookup(last.settings, k)
C8_Witness ==
    /\ Built /\ last.ret.success /\ md_loaded
    /\ last.settings = <<E(K_n, IntV(2)), E(K_b, BoolV(TRUE))>>
    /\ GroupAt(last.extruder_settings, 0) = <<E(K_n, IntV(1)), E(K_z, IntV(2))>>
    /\ GroupAt(last.ret.groups.extruders, 0)
          = <<E(K_n, IntV(1)), E(K_b, BoolV(TRUE)), E(K_z, IntV(2))>>

\* reading a generated file: its section headers, and the entries of its values
\* section, an entry being a line with the continuation lines that follow it
IsHeader(line) == line # <<>> /\ Head(line) = "["
HeadersOf(text) == SelectSeq(text, IsHeader)
Chars_values_header == <<"[","v","a","l","u","e","s","]">>
ValuesLines(text) ==
    IF \E i \in DOMAIN text : text[i] = Chars_values_header
    THEN SubSeq(text, 1 + (CHOOSE i \in DOMAIN text : text[i] = Chars_values_header),
                Len(text) - 1)
    ELSE <<>>
RECURSIVE JoinEntries(_, _)
JoinEntries(lines, acc) ==
    IF lines = <<>> THEN acc
    ELSE IF acc # <<>> /\ Head(lines) # <<>> /\ Head(Head(lines)) = "\t"
    THEN JoinEntries(Tail(lines),
                     [acc EXCEPT ![Len(acc)] = @ \o <<"\n">> \o Tail(Head(lines))])
    ELSE JoinEntries(Tail(lines), Append(acc, Head(lines)))
EntriesOf(text) == JoinEntries(ValuesLines(text), <<>>)
Formatted(e) ==
    IF md_loaded THEN format_value_for_cfg(md_settings, e.k, e.v) ELSE PyStr(e.v)
EntryText(key, value) == key \o <<" ", "=", " ">> \o value
ThreeHeaders ==
    << <<"[","g","e","n","e","r","a","l","]">>, <<"[","m","e","t","a","d","a","t","a","]">>,
       Chars_values_header >>

\* C9 as stated: the text has the three sections general, metadata, values in
\* that order, and the values section has exactly one `key = formattedValue`
\* entry per setting of the group, in insertion order.
C9_ThreeSectionsEntryPerSetting ==
    Generated
    => /\ HeadersOf(last.text) = ThreeHeaders
       /\ EntriesOf(last.text)
            = [i \in DOMAIN last.args.settings |->
                  EntryText(last.args.settings[i].k, Formatted(last.args.settings[i]))]

\* the entries of d whose key, lower-cased, no earlier entry has; in order
RECURSIVE Ascending(_)
Ascending(S) ==
    IF S = {} THEN <<>>
    ELSE LET m == CHOOSE a \in S : \A b \in S : a <= b IN <<m>> \o Ascending(S \ {m})
FirstUses(d) ==
    Ascending({ i \in DOMAIN d : \A j \in 1..(i - 1) : StrLower(d[j].k) # StrLower(d[i].k) })
LastUse(d, i) ==
    CHOOSE j \in DOMAIN d :
        /\ StrLower(d[j].k) = StrLower(d[i].k)
        /\ \A m \in DOMAIN d : StrLower(d[m].k) = StrLower(d[i].k) => m <= j

\* C9, amended: the text has the sections general and metadata and, when the
\* group is not empty, values, in that order; the values section has one entry
\* per lower-cased key, written `lowercasedKey = formattedValue`, in the order in
\* which the lower-cased keys were first inserted, each with the formatted value
\* of the last setting inserted under it.
C9_SectionsAndEntries ==
    Generated
    => /\ HeadersOf(last.text)
            = SubSeq(ThreeHeaders, 1, IF last.args.settings = <<>> THEN 2 ELSE 3)
       /\ EntriesOf(last.text)
            = [n \in DOMAIN FirstUses(last.args.settings) |->
                  EntryText(StrLower(last.args.settings[FirstUses(last.args.settings)[n]].k),
                            Formatted(last.args.settings[
                                LastUse(last.args.settings, FirstUses(last.args.settings)[n])]))]
C9_Witness ==
    /\ Generated /\ md_loaded
    /\ KeyList(last.args.settings) = <<K_b, K_B>>
    /\ Len(EntriesOf(last.text)) = 1
    /\ Len(HeadersOf(last.text)) = 3

\* C10: the value written for a bool setting is the validator's coerced value:
\* True exactly when validation coerces the raw value to true, False for every
\* other accepted raw value.
C10_BoolWrittenAsCoerced ==
    (Generated /\ md_loaded)
    => \A i \in DOMAIN last.args.settings :
          (/\ get_type(md_settings, last.args.settings[i].k) = "bool"
           /\ \A j \in DOMAIN last.args.settings :
                 j # i => StrLower(last.args.settings[j].k) # StrLower(last.args.settings[i].k)
           /\ Accepted(validate_value(md_settings, last.args.settings[i].k,
                                      last.args.settings[i].v)))
          => \E n \in DOMAIN EntriesOf(last.text) :
                EntriesOf(last.text)[n]
                  = EntryText(StrLower(last.args.settings[i].k),
                        IF Coerce(md_settings[last.args.settings[i].k],
                                  last.args.settings[i].v).v = BoolV(TRUE)
                        THEN <<"T","r","u","e">> ELSE <<"F","a","l","s","e">>)

\* a text with every newline and tab written as backslash-n and backslash-t
RECURSIVE EscapedCharwise(_)
EscapedCharwise(s) ==
    IF s = <<>> THEN <<>>
    ELSE (CASE Head(s) = "\n" -> <<"\\", "n">>
            [] Head(s) = "\t" -> <<"\\", "t">>
            [] OTHER -> <<Head(s)>>) \o EscapedCharwise(Tail(s))
\* no other setting of the group has this one's key, case ignored
OnlyUse(d, i) == \A j \in DOMAIN d : j # i => StrLower(d[j].k) # StrLower(d[i].k)
\* the lines of the values section that are this text, none of them continued
WholeLines(text, line) ==
    { n \in DOMAIN ValuesLines(text) :
        /\ ValuesLines(text)[n] = line
        /\ n < Len(ValuesLines(text))
            => ~(ValuesLines(text)[n + 1] # <<>> /\ Head(ValuesLines(text)[n + 1]) = "\t") }

\* C11: for a str setting the formatted value holds no newline and no tab: each
\* newline is written backslash-n, each tab backslash-t, every other character
\* is unchanged, and the setting is exactly one line of the values section.
C11_StringValuesEscaped ==
    (Generated /\ md_loaded)
    => \A i \in DOMAIN last.args.settings :
          get_type(md_settings, last.args.settings[i].k) = "str"
          => /\ \A j \in DOMAIN Formatted(last.args.settings[i]) :
                   Formatted(last.args.settings[i])[j] \notin {"\n", "\t"}
             /\ last.args.settings[i].v.t = "str"
                   => Formatted(last.args.settings[i]) = EscapedCharwise(last.args.settings[i].v.s)
             /\ OnlyUse(last.args.settings, i)
                   => Cardinality(WholeLines(last.text,
                          EntryText(StrLower(last.args.settings[i].k),
                                    Formatted(last.args.settings[i])))) = 1
C11_Witness ==
    /\ Generated /\ md_loaded
    /\ last.args.settings = <<E(K_s, StrV(<<"\t","\\","\n">>)), E(K_z, StrV(<<"q","\n","r">>))>>
    /\ ValuesLines(last.text)
          = << <<"s"," ","="," ","\\","t","\\","\\","n">>, <<"z"," ","="," ","q">>, <<"\t","r">> >>

BuildCalled == last.op = "build_curaprofile"

\* C12: every failure of a build is a returned (success = false, message); for
\* every schema and candidate set neither validation nor building ends with an
\* exception that nothing catches.
C12_FailuresAreReturned ==
    last.op \in {"validate_value", "validate_settings", "build_curaprofile"}
    => /\ last.ret.out = "return"
       /\ (BuildCalled /\ ~last.ret.success)
            => last.ret.message \in {"Unknown definition", "Validation errors",
                                     "Failed to create profile"}

\* C13: no partial output is ever at the archive's final location: when a build
\* fails at any stage nothing has been written to the output path, and the
\* archive is there only completely written.
C13_NoPartialOutput ==
    /\ archive.state \in {"absent", "complete"}
    /\ (BuildCalled /\ ~last.ret.success) => archive = NoArchive

\* the definition file of the schema is missing or cannot be parsed
LoadFailed == phase # "new" /\ disk.install /\ disk.fdm # "ok"
SkippedWarning == <<[key |-> <<>>, msg |-> [kind |-> "skipped"]]>>
\* every setting of d that shares its key with no other is written as str(value)
WrittenPlain(d, text) ==
    \A i \in DOMAIN d :
        OnlyUse(d, i)
        => \E n \in DOMAIN EntriesOf(text) :
              EntriesOf(text)[n] = EntryText(StrLower(d[i].k), PyStr(d[i].v))

\* C14: a schema load failure is not fatal: load reports it without raising, a
\* build still proceeds, validate_settings accepts every candidate map with no
\* error and only the warning that validation was skipped, and all settings are
\* written with plain text formatting.
C14_LoadFailureDegrades ==
    LoadFailed
    => /\ ~md_loaded
       /\ last.op = "initialize" => ~last.success
       /\ last.op = "validate_settings"
            => last.ret = [out |-> "return", all_valid |-> TRUE, errors |-> <<>>,
                           warnings |-> SkippedWarning]
       /\ Generated => WrittenPlain(last.args.settings, last.text)
       /\ BuildCalled
            => /\ last.ret.out = "return"
               /\ last.ret.message # "Validation errors"
               /\ Built
                    => /\ last.ret.detail = SkippedWarning
                       /\ last.ret.groups.global_only = last.settings
                       /\ WrittenPlain(last.settings, last.ret.files[1].text)
C14_Witness ==
    /\ LoadFailed /\ disk.fdm = "corrupt"
    /\ Built /\ last.ret.success
    /\ last.settings = <<E(K_b, StrV(<<"n","o">>)), E(K_n, IntV(MaxNum))>>
    /\ archive.state = "complete"
    /\ Len(archive.members) = 1

UnknownDefinition == BuildCalled /\ last.ret.out = "return" /\ last.ret.message = "Unknown definition"

\* the machine definitions the installation has: a file <name>.def.json each,
\* the abstract base definitions left out
DefinitionsOnDisk ==
    IF disk.install THEN disk.defs \ {Chars_fdmprinter, Chars_fdmextruder} ELSE {}

\* C15: build_curaprofile fails with an unknown-definition message and writes no
\* archive whenever the requested definition is not one of the definitions
\* discovered at initialization; it proceeds past the check only for a
\* definition that was discovered.
C15_FailsUnlessDiscovered ==
    BuildCalled
    => /\ last.header.definition \notin DefinitionsOnDisk
            => UnknownDefinition /\ archive = NoArchive
       /\ ~UnknownDefinition => last.header.definition \in DefinitionsOnDisk

\* what the check does: it fails exactly when the discovered list is not empty
\* and the requested name is neither in it nor "fdmprinter"; the list holds,
\* for each file <name>.def.json, the stem <name>.def
UnknownDefinitionCheck ==
    /\ (phase # "new" /\ disk.install)
        => { available_definitions[i] : i \in DOMAIN available_definitions }
              = { name \o <<".","d","e","f">> : name \in disk.defs }
    /\ BuildCalled
        => /\ UnknownDefinition
              <=> /\ available_definitions # <<>>
                  /\ ~InList(last.header.definition, available_definitions)
                  /\ last.header.definition # Chars_fdmprinter
           /\ UnknownDefinition
              => ~last.ret.success /\ last.ret.files = <<>> /\ archive = NoArchive

\* the last operation was build_from_preset with names the tables have
PresetMerged == last.op = "build_from_preset" /\ PresetsKnown(last.material, last.quality)
\* what the three sources give for a key, the latest source that defines it winning
LatestOf(q, m, o, k) ==
    IF k \in Keys(o) THEN Lookup(o, k) ELSE IF k \in Keys(m) THEN Lookup(m, k) ELSE Lookup(q, k)
MergedFrom(map, q, m, o) ==
    /\ Keys(map) = Keys(q) \cup Keys(m) \cup Keys(o)
    /\ \A i, j \in DOMAIN map : map[i].k = map[j].k => i = j
    /\ \A k \in Keys(map) : Lookup(map, k) = LatestOf(q, m, o, k)
    /\ \A i, j \in DOMAIN map :
          (map[i].k \in Keys(q) /\ map[j].k \notin Keys(q)) => i < j

\* C16: the candidate map of build_from_preset has every key of the quality
\* preset, the material preset and the overrides, each once, with the value of
\* the latest of quality, material, overrides that defines it, the quality
\* preset's keys first; PLA with draft and no overrides has layer_height 0.28
\* and material_print_temperature 200
C16_PresetMergeOrder ==
    PresetMerged =>
        /\ MergedFrom(last.settings, Lookup(QUALITY_PRESETS, StrLower(last.quality)),
                      Lookup(MATERIAL_PRESETS, StrUpper(last.material)), last.custom_overrides)
        /\ (/\ StrUpper(last.material) = <<"P","L","A">>
            /\ StrLower(last.quality) = <<"d","r","a","f","t">>
            /\ last.custom_overrides = <<>>)
           => /\ Lookup(last.settings, Chars_layer_height) = DecV(28)
              /\ Lookup(last.settings, Chars_material_print_temperature) = IntV(200)
\* a PLA draft profile is built with an override of the quality's layer_height
C16_Witness ==
    /\ PresetMerged
    /\ last.ret.out = "return" /\ last.ret.success
    /\ StrUpper(last.material) = <<"P","L","A">> /\ last.material # <<"P","L","A">>
    /\ StrLower(last.quality) = <<"d","r","a","f","t">>
    /\ Chars_layer_height \in Keys(last.custom_overrides)
    /\ Lookup(last.settings, Chars_layer_height) = DecV(12)
    /\ Lookup(last.ret.groups.global_only, Chars_layer_height) = DecV(12)

\* run_cli built from --settings: the parser ran on last.args.settings
ParsedManual == last.op = "run_cli" /\ last.res.source = "settings"
\* a numeral without its blanks and its sign
Unsigned(text) ==
    IF Strip(text) # <<>> /\ Head(Strip(text)) \in {"+", "-"} THEN Tail(Strip(text)) ELSE Strip(text)
SignOf(text) == IF Strip(text) # <<>> /\ Head(Strip(text)) = "-" THEN -1 ELSE 1
IntegerText(text) == AllDigits(Unsigned(text))
\* digits, a point, digits: one of the two digit strings may be empty
DecimalText(text) ==
    \E p \in DOMAIN Unsigned(text) :
        /\ Unsigned(text)[p] = "."
        /\ \A i \in DOMAIN Unsigned(text) : i # p => IsDigit(Unsigned(text)[i])
        /\ Len(Unsigned(text)) > 1
HundredthsOfText(text) ==
    LET u == Unsigned(text)
        p == CHOOSE i \in DOMAIN u : u[i] = "."
        frac == SubSeq(u, p + 1, Len(u))
    IN  SignOf(text) * (100 * DigitsVal(SubSeq(u, 1, p - 1), 0)
                        + (IF Len(frac) = 0 THEN 0
                           ELSE IF Len(frac) = 1 THEN 10 * DigitsVal(frac, 0)
                           ELSE DigitsVal(frac, 0)))
\* the value the text of an item stands for
Sniffed(text) ==
    IF StrLower(text) = Chars_true THEN BoolV(TRUE)
    ELSE IF StrLower(text) = Chars_false THEN BoolV(FALSE)
    ELSE IF DecimalText(text) THEN DecV(HundredthsOfText(text))
    ELSE IF IntegerText(text) THEN IntV(SignOf(text) * DigitsVal(Unsigned(text), 0))
    ELSE StrV(text)
\* the items of the list that are key=value items, by position
KeyValueItems(text) == { i \in DOMAIN Split(text, ",") : "=" \in Range(Split(text, ",")[i]) }
KeyOfItem(text, i) == Strip(SplitOnce(Split(text, ",")[i], "=")[1])
TextOfItem(text, i) == SplitOnce(Split(text, ",")[i], "=")[2]
Chars_manual_example == Chars_retraction_amount \o <<"=","0",".","8",",">> \o Chars_cool_fan_speed \o <<"=","1","0","0">>

\* C17: the map parsed from --settings has an entry for the key of every
\* key=value item and no other entry, in the order of the items; the value of
\* an entry is the sniffed value of the last item with its key: a boolean for
\* true and false in any case, a float for a numeral with a decimal point, an
\* int for an integer numeral, and the text itself for everything else.  The
\* list retraction_amount=0.8,cool_fan_speed=100 gives the float 0.8 and the
\* int 100
C17_ManualSettingsSniffed ==
    ParsedManual =>
        LET text == last.args.settings.s
            map == last.res.settings
        IN  /\ Keys(map) = { KeyOfItem(text, i) : i \in KeyValueItems(text) }
            /\ \A i, j \in DOMAIN map : map[i].k = map[j].k => i = j
            /\ \A i \in KeyValueItems(text) :
                  (\A j \in KeyValueItems(text) : KeyOfItem(text, j) = KeyOfItem(text, i) => j <= i)
                  => Lookup(map, KeyOfItem(text, i)) = Sniffed(TextOfItem(text, i))
            /\ text = Chars_manual_example
               => map = <<E(Chars_retraction_amount, DecV(80)), E(Chars_cool_fan_speed, IntV(100))>>
\* the example list is parsed and built into a profile
C17_Witness ==
    /\ ParsedManual
    /\ last.args.settings.s = Chars_manual_example
    /\ Lookup(last.res.settings, Chars_retraction_amount).t = "float"
    /\ Lookup(last.res.settings, Chars_cool_fan_speed).t = "int"
    /\ last.res.exit = 0
    /\ archive.state = "complete"

\* the build-source flags the command line gives a value
SourcesGiven(args) ==
    { f \in {"from_json", "preset", "settings"} :
        \/ f = "from_json" /\ Truthy(args.from_json)
        \/ f = "preset" /\ Truthy(args.preset)
        \/ f = "settings" /\ Truthy(args.settings) }

\* C18: a run of the command line that takes a build source was given that
\* source and no other, and a run given two or more sources takes none and
\* exits with code 1
C18_SourcesExclusive ==
    last.op = "run_cli" =>
        /\ last.res.source # "none" => SourcesGiven(last.args) = {last.res.source}
        /\ Cardinality(SourcesGiven(last.args)) >= 2
           => last.res.source = "none" /\ last.res.exit = 1 /\ last.res.ret.out = "none"
\* what the command line does with several sources: the first of from_json,
\* preset, settings that is given is taken, whatever else is given
SourceTaken ==
    last.op = "run_cli" /\ last.res.source # "none" =>
        /\ last.res.source \in SourcesGiven(last.args)
        /\ last.res.source = "preset" => "from_json" \notin SourcesGiven(last.args)
        /\ last.res.source = "settings" => SourcesGiven(last.args) = {"settings"}

\* the declared type of the setting validate_value was last called on
DeclaredType == get_type(md_settings, last.key)
\* no number of the declared type can be read from the raw value
Unparsable(type, value) ==
    CASE value.t = "str" ->
            IF type = "int" THEN ~IntegerText(value.s)
            ELSE ~(IntegerText(value.s) \/ DecimalText(value.s))
      [] value.t \in {"none", "list"} -> TRUE
      [] OTHER -> type = "int" /\ value = InfV
CoercionFailed ==
    /\ ValidatedKnown
    /\ DeclaredType \in {"int", "float"}
    /\ Unparsable(DeclaredType, last.value)

\* C19: validate_value on an int or float setting and a raw value no number of
\* that type can be read from returns (it does not raise) is_valid = false and
\* a conversion error that names the target type and holds the raw value
C19_UnparsableIsTypeMismatch ==
    CoercionFailed =>
        /\ last.ret.out = "return"
        /\ ~last.ret.valid
        /\ last.ret.msg.kind = "conversion"
        /\ last.ret.msg.target = DeclaredType
        /\ last.ret.msg.literal = PyStr(last.value)
\* what the code does for such a value: a text gets the error that quotes it,
\* any other object an error that names its type only, and the float inf on an
\* int setting leaves validate_value as an OverflowError
ConversionOutcome ==
    CoercionFailed =>
        IF DeclaredType = "int" /\ last.value = InfV
        THEN last.ret.out = "raise" /\ last.ret.msg.kind = "OverflowError"
        ELSE /\ last.ret.out = "return" /\ ~last.ret.valid
             /\ last.ret.msg.kind = "conversion" /\ last.ret.msg.target = DeclaredType
             /\ IF last.value.t = "str" THEN last.ret.msg.literal = last.value.s
                ELSE last.ret.msg.literal = <<>> /\ last.ret.msg.argtype = last.value.t

\* validate_value was last called on a bool setting; what its try block made
\* of the raw value
BoolValidated == ValidatedKnown /\ DeclaredType = "bool"
CoercedBool == Coerce(md_settings[last.key], last.value)
TrueWord(v) == v.t = "str" /\ StrLower(v.s) \in {<<"t","r","u","e">>, <<"1">>, <<"y","e","s">>}
NeverRejected == last.ret.out = "return" /\ last.ret.valid /\ last.ret.msg = EmptyMsg /\ CoercedBool.ok

\* C20 as stated: on a bool setting a native boolean is kept, the words true, 1
\* and yes in any case become true, every other raw value becomes false, and
\* nothing is rejected
C20_EverythingElseFalse ==
    BoolValidated =>
        /\ NeverRejected
        /\ CoercedBool.v = IF last.value.t = "bool" THEN last.value ELSE BoolV(TrueWord(last.value))

\* C20: on a bool setting a native boolean is kept; a string becomes true when
\* it is true, 1 or yes in any case and false otherwise; any other value becomes
\* its truth value, true for a number other than zero and for a non-empty list,
\* false for zero, None and the empty list; nothing is rejected
C20_BoolCoercion ==
    BoolValidated =>
        /\ NeverRejected
        /\ CoercedBool.v =
              CASE last.value.t = "bool" -> last.value
                [] last.value.t = "str" -> BoolV(TrueWord(last.value))
                [] last.value.t = "none" -> BoolV(FALSE)
                [] OTHER -> BoolV(last.value.n # 0)
\* the number 1 is given for a bool setting and taken as true
C20_Witness ==
    /\ BoolValidated
    /\ last.value = IntV(1)
    /\ CoercedBool.v = BoolV(TRUE)
    /\ last.ret.valid

\* the overrides section of the loaded definition file, and the records the
\* settings tree gave before it was applied
LoadedOverrides == IF disk.def_data.has_overrides THEN disk.def_data.overrides ELSE <<>>
BaseRecords == TreeSettings(disk.def_data)
\* record has the fields of base and of override, the override's value where it
\* names the field, the base's value elsewhere, and the file name as _source
MergedByField(record, base, override) ==
    /\ DOMAIN record = DOMAIN base \cup DOMAIN override \cup {"_source"}
    /\ \A f \in DOMAIN override \ {"_source"} : record[f] = override[f]
    /\ \A f \in DOMAIN base \ (DOMAIN override \cup {"_source"}) : record[f] = base[f]
    /\ record["_source"] = disk.def_data.filename

\* C21: once the definition is loaded, the record of every key the overrides
\* section names and the settings tree has holds the override's value for every
\* field the override names and the tree's value, the category tag included, for
\* every other field; the records of the other keys of the tree are as extracted
C21_OverridesMergedByKey ==
    md_loaded =>
        /\ DOMAIN md_settings = DOMAIN BaseRecords \cup Keys(LoadedOverrides)
        /\ \A k \in DOMAIN BaseRecords :
              IF k \in Keys(LoadedOverrides)
              THEN /\ MergedByField(md_settings[k], BaseRecords[k], Lookup(LoadedOverrides, k))
                   /\ ("_category" \notin DOMAIN Lookup(LoadedOverrides, k)
                       => md_settings[k]["_category"] = BaseRecords[k]["_category"])
              ELSE md_settings[k] = BaseRecords[k]
\* the override lowers the maximum of the int setting from 4 to 2: the setting is
\* still an int of its category, and 3 is now above the maximum
C21_Witness ==
    /\ last.op = "validate_value" /\ last.key = K_n /\ last.value = IntV(3)
    /\ K_n \in Keys(LoadedOverrides) /\ K_n \in DOMAIN BaseRecords
    /\ BaseRecords[K_n]["maximum_value"] = IntV(4)
    /\ md_settings[K_n]["maximum_value"] = IntV(2)
    /\ md_settings[K_n]["type"] = "int"
    /\ md_settings[K_n]["_category"] = K_cat
    /\ last.ret = Return(FALSE, AboveMaximum(IntV(3), IntV(2)))

\* the keys only the overrides section has
OverrideOnly(k) == k \in Keys(LoadedOverrides) /\ k \notin DOMAIN BaseRecords
ValidatedOverrideOnly == md_loaded /\ last.op = "validate_value" /\ OverrideOnly(last.key)

\* C22 as stated: validate_value accepts every value for a key that only the
\* overrides section has
C22_OverrideOnlyAcceptsAll ==
    ValidatedOverrideOnly => last.ret.out = "return" /\ last.ret.valid

\* C22: the record of a key that only the overrides section has holds the fields
\* of the override and _source and nothing else; a value for such a key is
\* validated against those fields, and every value is accepted with no message
\* when the override names no type
C22_OverrideOnlyRecord ==
    /\ md_loaded =>
          \A k \in Keys(LoadedOverrides) :
              OverrideOnly(k) =>
                  /\ k \in DOMAIN md_settings
                  /\ MergedByField(md_settings[k], EmptyRecord, Lookup(LoadedOverrides, k))
    /\ ValidatedOverrideOnly =>
          /\ last.ret = validate_value(last.key :> Lookup(LoadedOverrides, last.key),
                                       last.key, last.value)
          /\ "type" \notin DOMAIN Lookup(LoadedOverrides, last.key)
             => last.ret = Return(TRUE, EmptyMsg)
\* a text is given for a key the override introduces with a default value only
C22_Witness ==
    /\ ValidatedOverrideOnly
    /\ last.key = K_z /\ last.value = StrV(<<"x">>)
    /\ DOMAIN md_settings[K_z] = {"default_value", "_source"}
    /\ last.ret = Return(TRUE, EmptyMsg)

\* the schema as initialize loaded it from the disk
SchemaAsLoaded ==
    /\ md_loaded = (disk.install /\ disk.fdm = "ok")
    /\ md_settings = IF md_loaded THEN extract_settings_from_def(disk.def_data) ELSE <<>>
\* the maps the latest operation was handed, as the caller made them
MapsHanded ==
    CASE last.op \in {"validate_settings", "build_curaprofile"} ->
            Handed(last.settings,
                   IF last.op = "build_curaprofile" THEN last.extruder_settings ELSE <<>>, <<>>)
      [] last.op = "generate_inst_cfg" -> Handed(last.args.settings, <<>>, <<>>)
      [] last.op = "build_from_preset" -> Handed(<<>>, <<>>, last.custom_overrides)
      [] OTHER -> NoMaps
\* the candidate map the tables of the source give
MapFromTables(material, quality, custom_overrides) ==
    DictUpdate(DictUpdate(DictUpdate(<<>>, Lookup(QUALITY_PRESETS, StrLower(quality))),
                          Lookup(MATERIAL_PRESETS, StrUpper(material))),
               custom_overrides)
ThisPresetCall ==
    PresetArgs(last.header, last.material, last.quality, last.custom_overrides, last.failure)

====
